---- MODULE Spec2Model ----
(***************************************************************************)
(* A model of ufoProcessor: the designspace document (designspaceLib.py)   *)
(* with its rule engine, axis normalisation and XML persistence, and the   *)
(* mutator cache of DesignSpaceProcessor (__init__.py).                    *)
(*                                                                         *)
(* Conventions                                                             *)
(*   - a number is a reduced fraction <<n, d>> with d > 0; an anisotropic  *)
(*     value (a Python tuple (x, y)) is <<xn, xd, yn, yd>>;                *)
(*   - None is the empty sequence; an optional mapping (a location that    *)
(*     may be None) is << >> or <<mapping>>;                               *)
(*   - the value of an XML numeric attribute is the text <<m, e>>, the     *)
(*     decimal m * 10^-e.                                                  *)
(***************************************************************************)
EXTENDS Integers, Sequences, FiniteSets, TLC

VARIABLES
    op,     \* the operation that produced the current state ("init" at first)
    py2,    \* TRUE when the interpreter orders None below every number (Python 2)
    inp,    \* the arguments of the function under test
    out,    \* its result
    doc,    \* the DesignSpaceDocument object
    doc2,   \* a second, fresh document object (the reader of a written file)
    file,   \* the designspace XML on disk, None before any exists
    proc,   \* what DesignSpaceProcessor adds to the document: its caches
    ret,    \* [raised, value]: what the last call on doc or proc returned
    hist    \* history: what the claims need to remember of earlier states

vars == <<op, py2, inp, out, doc, doc2, file, proc, ret, hist>>
fnVars == <<py2, inp, out>>
objVars == <<doc, doc2, file, proc, ret, hist>>

(***************************************************************************)
(* Bounds of the model.                                                    *)
(***************************************************************************)
MaxRules == 2     \* rules in a list handed to processRules
MaxSubs == 2      \* (from, to) pairs in the subs of one rule
MaxNames == 2     \* glyph names handed to processRules
MaxConds == 2     \* conditions in a condition set handed to evaluateConditions
MaxValue == 4     \* axis values range over 0..MaxValue
MaxCalls == 3     \* calls of getGlyphMutator in one run
MaxRevision == 1  \* times the glyphs of the loaded source fonts are edited
MaxOps == 3       \* calls made on one document
MaxReloads == 1    \* reloads (read again, loadFonts) in one run
MaxMasters == 2    \* masters handed to getVariationModel
MaxProblems == 2   \* entries of the problems list

(***************************************************************************)
(* Numbers: Python floats, modelled as exact fractions.                    *)
(***************************************************************************)
None == << >>

Abs(x) == IF x < 0 THEN -x ELSE x

RECURSIVE GCD(_, _)
GCD(a, b) == IF b = 0 THEN a ELSE GCD(b, a % b)

Rat(n, d) ==
    LET g == GCD(Abs(n), d)
    IN  IF n = 0 THEN <<0, 1>> ELSE <<n \div g, d \div g>>

Num(k) == <<k, 1>>

RLt(a, b) == a[1] * b[2] < b[1] * a[2]
RLe(a, b) == a[1] * b[2] <= b[1] * a[2]
RSub(a, b) == Rat(a[1] * b[2] - b[1] * a[2], a[2] * b[2])
RDiv(a, b) ==
    IF b[1] < 0 THEN Rat(-(a[1] * b[2]), -(a[2] * b[1]))
    ELSE Rat(a[1] * b[2], a[2] * b[1])
RAdd(a, b) == Rat(a[1] * b[2] + b[1] * a[2], a[2] * b[2])
RMul(a, b) == Rat(a[1] * b[1], a[2] * b[2])
RMax(a, b) == IF RLt(a, b) THEN b ELSE a
RMin(a, b) == IF RLt(b, a) THEN b ELSE a

IsTuple(v) == Len(v) = 4
First(v) == <<v[1], v[2]>>

(***************************************************************************)
(* The rule engine.                                                        *)
(* A condition is [name, minimum, maximum] with minimum and maximum a      *)
(* number or None; a rule is [name, conditionSets, subs].  The functions   *)
(* answer "True", "False" or "Error" (an exception reaches the caller).    *)
(***************************************************************************)

\* The body of the loop: one condition against the value the location gives.
\* "Pass" goes on to the next condition.  A tuple (anisotropic) value or a
\* None bound in a comparison raises TypeError, or is ordered by Python 2's
\* rule (None below every object, a number below every tuple).
ConditionStrict(cd, value) ==
    IF IsTuple(value) THEN
        IF ~py2 THEN "Error"
        ELSE IF cd.minimum # None /\ cd.maximum = None THEN "Pass" ELSE "False"
    ELSE IF cd.minimum = None THEN
        IF cd.maximum = None THEN (IF py2 THEN "False" ELSE "Error")
        ELSE IF RLe(cd.maximum, value) THEN "False" ELSE "Pass"
    ELSE IF cd.maximum = None THEN
        IF RLe(value, cd.minimum) THEN "False" ELSE "Pass"
    ELSE IF ~(RLe(cd.minimum, value) /\ RLe(value, cd.maximum)) THEN "False"
    ELSE "Pass"

Condition(cd, value) ==
    IF IsTuple(value) THEN
        IF ~py2 THEN "Error"
        ELSE IF cd.minimum # None /\ cd.maximum = None THEN "Pass" ELSE "False"
    ELSE IF cd.minimum = None THEN
        IF cd.maximum = None THEN (IF py2 THEN "False" ELSE "Error")
        ELSE IF RLt(cd.maximum, value) THEN "False" ELSE "Pass"
    ELSE IF cd.maximum = None THEN
        IF RLt(value, cd.minimum) THEN "False" ELSE "Pass"
    ELSE IF ~(RLe(cd.minimum, value) /\ RLe(value, cd.maximum)) THEN "False"
    ELSE "Pass"

\* The loop as it would run if the value were read with location.get(name)
\* and a condition on an axis the location lacks were passed over.
RECURSIVE evaluateConditionsSkipAbsent(_, _, _)
evaluateConditionsSkipAbsent(conditions, location, i) ==
    IF i > Len(conditions) THEN "True"
    ELSE IF conditions[i].name \notin DOMAIN location
    THEN evaluateConditionsSkipAbsent(conditions, location, i + 1)
    ELSE IF Condition(conditions[i], location[conditions[i].name]) = "Pass"
    THEN evaluateConditionsSkipAbsent(conditions, location, i + 1)
    ELSE Condition(conditions[i], location[conditions[i].name])

RECURSIVE evaluateConditionsFrom(_, _, _)
evaluateConditionsFrom(conditions, location, i) ==
    IF i > Len(conditions) THEN "True"
    ELSE
        LET cd == conditions[i]
        IN  IF cd.name \notin DOMAIN location THEN "Error"
            ELSE
                LET r == Condition(cd, location[cd.name])
                IN  IF r = "Pass"
                    THEN evaluateConditionsFrom(conditions, location, i + 1)
                    ELSE r

\* The loop as it would run if it returned after its first condition
evaluateConditionsFirst(conditions, location) ==
    IF Len(conditions) = 0 THEN "True"
    ELSE evaluateConditionsFrom(<<conditions[1]>>, location, 1)

evaluateConditions(conditions, location) ==
    evaluateConditionsFrom(conditions, location, 1)

\* any(...) over a generator: the condition sets in order, stopping at the
\* first that matches or raises.
RECURSIVE evaluateRuleFrom(_, _, _)
evaluateRuleFrom(rule, location, i) ==
    IF i > Len(rule.conditionSets) THEN "False"
    ELSE
        LET r == evaluateConditions(rule.conditionSets[i], location)
        IN  IF r = "False" THEN evaluateRuleFrom(rule, location, i + 1) ELSE r

evaluateRule(rule, location) == evaluateRuleFrom(rule, location, 1)

\* The (a, b) loop with its break: the target of the first pair whose source
\* is the name, the name itself when no pair has it.
RECURSIVE SubChained(_, _, _)
SubChained(subs, name, j) ==
    IF j > Len(subs) THEN name
    ELSE IF subs[j][1] = name THEN SubChained(subs, subs[j][2], j + 1)
    ELSE SubChained(subs, name, j + 1)

RECURSIVE FirstSub(_, _, _)
FirstSub(subs, name, j) ==
    IF j > Len(subs) THEN name
    ELSE IF subs[j][1] = name THEN subs[j][2]
    ELSE FirstSub(subs, name, j + 1)

ApplySubs(subs, glyphNames) ==
    [k \in 1..Len(glyphNames) |-> FirstSub(subs, glyphNames[k], 1)]

\* The loop over the rules.  The result is [raised, value]: raised when
\* evaluateRule raised, else value is the list returned.
RECURSIVE processRulesFrom(_, _, _, _)
processRulesFrom(rules, location, glyphNames, i) ==
    IF i > Len(rules) THEN [raised |-> FALSE, value |-> glyphNames]
    ELSE
        LET m == evaluateRule(rules[i], location)
        IN  IF m = "Error" THEN [raised |-> TRUE, value |-> << >>]
            ELSE IF m = "True"
            THEN processRulesFrom(rules, location,
                                  ApplySubs(rules[i].subs, glyphNames), i + 1)
            ELSE processRulesFrom(rules, location, glyphNames, i + 1)

Reverse(s) == [k \in 1..Len(s) |-> s[Len(s) + 1 - k]]

processRulesReversed(rules, location, glyphNames) ==
    processRulesFrom(Reverse(rules), location, glyphNames, 1)

processRules(rules, location, glyphNames) ==
    processRulesFrom(rules, location, glyphNames, 1)

(***************************************************************************)
(* Inputs of the rule engine.                                              *)
(***************************************************************************)
GlyphNames == {"a", "b", "c"}
Pairs == {p \in GlyphNames \X GlyphNames : p[1] # p[2]}
SeqsUpTo(S, n) == UNION {[1..k -> S] : k \in 0..n}

Cond(n, lo, hi) == [name |-> n, minimum |-> lo, maximum |-> hi]
Rule(cs, ss) == [name |-> "rule", conditionSets |-> cs, subs |-> ss]

\* A rule without condition sets (it never matches) or with the one set
\* weight in [250, 750], asked at weight 500 and at weight 900.
RuleCondSets == { << >>, << <<Cond("weight", Num(250), Num(750))>> >> }
RuleLocations == { [weight |-> Num(500)], [weight |-> Num(900)] }

SingleSubRules == {Rule(cs, <<p>>) : cs \in RuleCondSets, p \in Pairs}
RuleLists ==
    SeqsUpTo(SingleSubRules, MaxRules)
    \cup {<<Rule(cs, ss)>> : cs \in RuleCondSets, ss \in SeqsUpTo(Pairs, MaxSubs)}

Axis(n, t, lo, df, hi, mp) ==
    [name |-> n, tag |-> t, minimum |-> lo, default |-> df, maximum |-> hi, map |-> mp]

\* DesignSpaceDocument(): no axes, sources, instances or rules, no default.
NewDocument ==
    [path |-> None, axes |-> << >>, sources |-> << >>, instances |-> << >>,
     rules |-> << >>, default |-> None, defaultLoc |-> None]

\* DesignSpaceProcessor.__init__: nothing cached yet.
\* fonts stands for the loaded source fonts: per glyph name, the revision of
\* the glyph's outlines in them.
NewProcessor ==
    [glyphMutators |-> << >>, infoMutator |-> None, kerningMutator |-> None,
     fonts |-> [g \in {"a", "b"} |-> 0], fontsLoaded |-> FALSE]

Returned(v) == [raised |-> FALSE, value |-> v]
Raised == [raised |-> TRUE, value |-> None]

NoObjects ==
    /\ doc = NewDocument
    /\ doc2 = NewDocument
    /\ file = None
    /\ proc = NewProcessor
    /\ ret = Returned(None)
    /\ hist = << >>

NoInput == [fn |-> "none"]
NoOutput == "none"

InitRules ==
    /\ op = "init"
    /\ py2 = FALSE
    /\ inp \in [fn : {"processRules"}, rules : RuleLists,
                location : RuleLocations, glyphNames : SeqsUpTo(GlyphNames, MaxNames)]
    /\ out = NoOutput
    /\ NoObjects

CallProcessRules ==
    /\ op = "init"
    /\ inp.fn = "processRules"
    /\ out' = processRules(inp.rules, inp.location, inp.glyphNames)
    /\ op' = "processRules"
    /\ UNCHANGED <<py2, inp>>
    /\ UNCHANGED objVars

SpecRules == InitRules /\ [][CallProcessRules]_vars

(***************************************************************************)
(* Inputs of evaluateConditions.                                           *)
(***************************************************************************)
CondBounds == {None, Num(1), Num(3)}
Conds == {Cond(n, lo, hi) : n \in {"weight", "width"}, lo \in CondBounds, hi \in CondBounds}
WeightValues == {Num(k) : k \in 0..MaxValue} \cup {<<2, 1, 0, 1>>}
CondLocations ==
    {[weight |-> w] : w \in WeightValues}
    \cup {[weight |-> w, width |-> Num(2)] : w \in WeightValues}

InitConditions ==
    /\ op = "init"
    /\ py2 \in BOOLEAN
    /\ inp \in [fn : {"evaluateConditions"}, conditions : SeqsUpTo(Conds, MaxConds),
                location : CondLocations]
    /\ out = NoOutput
    /\ NoObjects

CallEvaluateConditions ==
    /\ op = "init"
    /\ inp.fn = "evaluateConditions"
    /\ out' = evaluateConditions(inp.conditions, inp.location)
    /\ op' = "evaluateConditions"
    /\ UNCHANGED <<py2, inp>>
    /\ UNCHANGED objVars

SpecConditions == InitConditions /\ [][CallEvaluateConditions]_vars

(***************************************************************************)
(* The document.  An axis is [name, tag, minimum, default, maximum, map];  *)
(* a location is a mapping from axis names to values.                      *)
(***************************************************************************)
\* One axis's share of normalizeLocation: the value against the axis's
\* minimum, default and maximum (a tuple gives its first component).
NormValueUnclamped(axis, v0) ==
    LET v == IF IsTuple(v0) THEN First(v0) ELSE v0
    IN  IF v = axis.default THEN Num(0)
        ELSE IF RLt(v, axis.default) THEN
            IF axis.default = axis.minimum THEN Num(0)
            ELSE RDiv(RSub(v, axis.default), RSub(axis.default, axis.minimum))
        ELSE
            IF axis.default = axis.maximum THEN Num(0)
            ELSE RDiv(RSub(v, axis.default), RSub(axis.maximum, axis.default))

NormValue(axis, v0) ==
    LET v == IF IsTuple(v0) THEN First(v0) ELSE v0
    IN  IF v = axis.default THEN Num(0)
        ELSE IF RLt(v, axis.default) THEN
            IF axis.default = axis.minimum THEN Num(0)
            ELSE RDiv(RSub(RMax(v, axis.minimum), axis.default),
                      RSub(axis.default, axis.minimum))
        ELSE
            IF axis.default = axis.maximum THEN Num(0)
            ELSE RDiv(RSub(RMin(v, axis.maximum), axis.default),
                      RSub(axis.maximum, axis.default))

\* The last axis of the list that has the name (a later entry of self.axes
\* overwrites new[axis.name]).
LastAxis(axes, n) ==
    axes[CHOOSE i \in 1..Len(axes) :
            /\ axes[i].name = n
            /\ \A j \in (i + 1)..Len(axes) : axes[j].name # n]

AxisNames(axes) == {axes[i].name : i \in 1..Len(axes)}

\* The same with every axis the location lacks taken at its default
normalizeLocationFilled(self, location) ==
    [n \in AxisNames(self.axes) |->
        IF n \in DOMAIN location
        THEN NormValue(LastAxis(self.axes, n), location[n])
        ELSE Num(0)]

normalizeLocation(self, location) ==
    [n \in AxisNames(self.axes) \cap DOMAIN location |->
        NormValue(LastAxis(self.axes, n), location[n])]

(***************************************************************************)
(* Inputs of normalizeLocation: a weight axis with minimum <= default <=   *)
(* maximum in 0..MaxValue beside a fixed width axis, and a location with   *)
(* weight at a multiple of 1/2 from -1 to MaxValue + 1 or at a tuple.      *)
(***************************************************************************)
WidthAxis == Axis("width", "wdth", Num(0), Num(2), Num(4), << >>)
WeightAxes ==
    {Axis("weight", "wght", Num(lo), Num(df), Num(hi), << >>) :
        lo \in 0..MaxValue, df \in 0..MaxValue, hi \in 0..MaxValue}
ValidAxis(a) == RLe(a.minimum, a.default) /\ RLe(a.default, a.maximum)

NormValues ==
    {Rat(k, 2) : k \in (-2)..(2 * MaxValue + 2)} \cup {<<1, 1, 3, 1>>, <<5, 2, 0, 1>>}
NormLocations ==
    {[weight |-> v] : v \in NormValues}
    \cup {[weight |-> v, width |-> Num(3)] : v \in NormValues}
    \cup {[weight |-> v, optical |-> Num(1)] : v \in NormValues}
    \cup {[width |-> Num(1)]}

InitNormalizeLocation ==
    /\ op = "init"
    /\ py2 = FALSE
    /\ inp \in {[fn |-> "normalizeLocation",
                 self |-> [NewDocument EXCEPT !.axes = <<a, WidthAxis>>],
                 location |-> l] :
                    a \in {x \in WeightAxes : ValidAxis(x)}, l \in NormLocations}
    /\ out = NoOutput
    /\ NoObjects

CallNormalizeLocation ==
    /\ op = "init"
    /\ inp.fn = "normalizeLocation"
    /\ out' = normalizeLocation(inp.self, inp.location)
    /\ op' = "normalizeLocation"
    /\ UNCHANGED <<py2, inp>>
    /\ UNCHANGED objVars

SpecNormalizeLocation == InitNormalizeLocation /\ [][CallNormalizeLocation]_vars

(***************************************************************************)
(* Descriptors.  Of a source the model keeps filename, path, name,         *)
(* location, the copy and mute flags and mutedGlyphNames; of an instance   *)
(* filename, path, name, location, kerning, info and glyphs.  The other    *)
(* attributes (family and style names, layerName, lib) are optional        *)
(* strings the reader and the writer pass through untouched.               *)
(* A location attribute is None or <<mapping>>; in the data of a glyph an  *)
(* absent key is None, so instanceLocation is None or <<mapping>> and      *)
(* masters is None or <<list of [font, glyphName, location]>>.             *)
(***************************************************************************)
Some(x) == <<x>>

Source(fn, pth, nm, loc, ci) ==
    [filename |-> fn, path |-> pth, name |-> nm, location |-> loc,
     copyLib |-> FALSE, copyInfo |-> ci, copyGroups |-> FALSE,
     copyFeatures |-> FALSE, muteKerning |-> FALSE, muteInfo |-> FALSE,
     mutedGlyphNames |-> << >>]

Instance(fn, pth, nm, loc, gl) ==
    [filename |-> fn, path |-> pth, name |-> nm, location |-> loc,
     glyphs |-> gl, kerning |-> TRUE, info |-> TRUE]

GlyphData(nm, mt, iloc, ms) ==
    [name |-> nm, mute |-> mt, instanceLocation |-> iloc, masters |-> ms]

Master(f, g, loc) == [font |-> f, glyphName |-> g, location |-> loc]

newDefaultLocation(self) ==
    [n \in AxisNames(self.axes) |-> LastAxis(self.axes, n).default]

\* The first of the sources at the given indices, None when there is none
FirstIndex(indices) ==
    IF indices # {}
    THEN Some(CHOOSE i \in indices : \A j \in indices : i <= j)
    ELSE None

\* findDefault: the first source whose location equals defaultLoc, else the
\* first source flagged copyInfo, else None.  The answer is [self, value];
\* value (and self.default) is None or <<index of the source in sources>>.
findDefault(self) ==
    LET byLocation ==
            FirstIndex({i \in 1..Len(self.sources) :
                           self.sources[i].location = self.defaultLoc})
        byFlag == FirstIndex({i \in 1..Len(self.sources) : self.sources[i].copyInfo})
        found == IF byLocation # None THEN byLocation ELSE byFlag
    IN  [self |-> [self EXCEPT !.default = found], value |-> found]

(***************************************************************************)
(* normalize().  Every step answers [raised, value]; when a step raises,   *)
(* value is the object as the steps before the exception left it.  A loop  *)
(* is an operator that does one round and hands what it computed to a      *)
(* second operator, which goes on with the next round.                     *)
(***************************************************************************)
EmptyLocation == [n \in {} |-> Num(0)]

\* normalizeLocation(x) for an attribute that may be None: "axis.name in
\* None" raises TypeError as soon as there is an axis to look at.
normalizeOptional(self, location) ==
    IF location # None THEN Returned(Some(normalizeLocation(self, location[1])))
    ELSE IF self.axes = << >> THEN Returned(Some(EmptyLocation))
    ELSE Raised

RECURSIVE normalizeSources(_, _, _)
normalizeSourceAt(self, sources, i, r) ==
    IF r.raised THEN [raised |-> TRUE, value |-> sources]
    ELSE normalizeSources(self, [sources EXCEPT ![i].location = r.value], i + 1)

normalizeSources(self, sources, i) ==
    IF i > Len(sources) THEN Returned(sources)
    ELSE normalizeSourceAt(self, sources, i,
                           normalizeOptional(self, sources[i].location))

RECURSIVE normalizeMasters(_, _, _)
normalizeMasterAt(self, masters, i, r) ==
    IF r.raised THEN [raised |-> TRUE, value |-> masters]
    ELSE normalizeMasters(self, [masters EXCEPT ![i].location = r.value], i + 1)

normalizeMasters(self, masters, i) ==
    IF i > Len(masters) THEN Returned(masters)
    ELSE normalizeMasterAt(self, masters, i,
                           normalizeOptional(self, masters[i].location))

\* glyphData['masters'] once the loop over it is through
normalizedMasters(glyphData, r) ==
    [raised |-> r.raised, value |-> [glyphData EXCEPT !.masters = Some(r.value)]]

\* The loop over glyphData['masters']; a missing key raises KeyError.
normalizeGlyphMasters(self, glyphData) ==
    IF glyphData.masters = None THEN [raised |-> TRUE, value |-> glyphData]
    ELSE normalizedMasters(glyphData, normalizeMasters(self, glyphData.masters[1], 1))

\* One glyphData: glyphData['instanceLocation'], then glyphData['masters'];
\* a missing key raises KeyError.
normalizeGlyphData(self, glyphData) ==
    IF glyphData.instanceLocation = None THEN [raised |-> TRUE, value |-> glyphData]
    ELSE normalizeGlyphMasters(self,
            [glyphData EXCEPT
                !.instanceLocation =
                    Some(normalizeLocation(self, glyphData.instanceLocation[1]))])

RECURSIVE normalizeGlyphs(_, _, _)
normalizeGlyphAt(self, glyphs, i, r) ==
    IF r.raised THEN [raised |-> TRUE, value |-> [glyphs EXCEPT ![i] = r.value]]
    ELSE normalizeGlyphs(self, [glyphs EXCEPT ![i] = r.value], i + 1)

normalizeGlyphs(self, glyphs, i) ==
    IF i > Len(glyphs) THEN Returned(glyphs)
    ELSE normalizeGlyphAt(self, glyphs, i, normalizeGlyphData(self, glyphs[i]))

RECURSIVE normalizeInstances(_, _, _)
\* item.location, after the glyphs of the item
normalizeInstanceLocation(self, instances, i, r) ==
    IF r.raised THEN [raised |-> TRUE, value |-> instances]
    ELSE normalizeInstances(self, [instances EXCEPT ![i].location = r.value], i + 1)

normalizeInstanceAt(self, instances, i, g) ==
    IF g.raised THEN [raised |-> TRUE, value |-> [instances EXCEPT ![i].glyphs = g.value]]
    ELSE normalizeInstanceLocation(self, [instances EXCEPT ![i].glyphs = g.value], i,
                                   normalizeOptional(self, instances[i].location))

normalizeInstances(self, instances, i) ==
    IF i > Len(instances) THEN Returned(instances)
    ELSE normalizeInstanceAt(self, instances, i,
                             normalizeGlyphs(self, instances[i].glyphs, 1))

\* normalizeLocation({name: value}).get(name)
normalizeOne(self, name, value) ==
    IF name \in AxisNames(self.axes) THEN NormValue(LastAxis(self.axes, name), value)
    ELSE None

\* normalize without its loop over the axes
normalizeAxesSkipped(self, i) == self

\* The axes, one after the other, each rewritten in place.
RECURSIVE normalizeAxes(_, _)
normalizeAxes(self, i) ==
    IF i > Len(self.axes) THEN self
    ELSE normalizeAxes(
            [self EXCEPT
                !.axes[i].map =
                    [k \in 1..Len(@) |-> <<@[k][1], normalizeOne(self, self.axes[i].name, @[k][2])>>],
                !.axes[i].minimum = normalizeOne(self, self.axes[i].name, @),
                !.axes[i].maximum = normalizeOne(self, self.axes[i].name, @),
                !.axes[i].default = normalizeOne(self, self.axes[i].name, @)],
            i + 1)

normalizeCondition(self, cond) ==
    [name |-> cond.name,
     minimum |-> IF cond.minimum # None
                 THEN normalizeOne(self, cond.name, cond.minimum) ELSE None,
     maximum |-> IF cond.maximum # None
                 THEN normalizeOne(self, cond.name, cond.maximum) ELSE None]

normalizeRules(self) ==
    [r \in 1..Len(self.rules) |->
        [self.rules[r] EXCEPT
            !.conditionSets =
                [c \in 1..Len(@) |->
                    [k \in 1..Len(@[c]) |-> normalizeCondition(self, @[c][k])]]]]

\* The rules, against the axes as the loop over the axes left them
normalizeRulesOf(self) == [self EXCEPT !.rules = normalizeRules(self)]

normalizeAfterInstances(self, n) ==
    IF n.raised THEN [raised |-> TRUE, value |-> [self EXCEPT !.instances = n.value]]
    ELSE Returned(normalizeRulesOf(normalizeAxes([self EXCEPT !.instances = n.value], 1)))

normalizeAfterSources(self, s) ==
    IF s.raised THEN [raised |-> TRUE, value |-> [self EXCEPT !.sources = s.value]]
    ELSE normalizeAfterInstances([self EXCEPT !.sources = s.value],
                                 normalizeInstances(self, self.instances, 1))

normalize(self) ==
    normalizeAfterSources(self, normalizeSources(self, self.sources, 1))

(***************************************************************************)
(* Numbers in the XML text.  The text of a numeric attribute is <<m, e>>,  *)
(* the decimal numeral of m / 10^e written with e digits after the point   *)
(* ("250" is <<250, 0>>, "0.1234567" is <<1234567, 7>>).                   *)
(***************************************************************************)
Txt(m, e) == <<m, e>>

RECURSIVE Pow10(_)
Pow10(e) == IF e = 0 THEN 1 ELSE 10 * Pow10(e - 1)

\* float(text)
float(text) == Rat(text[1], Pow10(text[2]))

\* The next k digits of rem / d and the remainder left after them.
RECURSIVE LongDivision(_, _, _, _)
LongDivision(rem, d, k, acc) ==
    IF k = 0 THEN <<acc, rem>>
    ELSE LongDivision((rem * 10) % d, d, k - 1, acc * 10 + ((rem * 10) \div d))

\* "%f" % num: six digits after the point, the nearest such numeral, a tie
\* going to the even last digit.  q is |num| cut after six digits, r what
\* is left of the division.
RoundHalfEven(q, r, d) ==
    IF 2 * r > d \/ (2 * r = d /\ q % 2 = 1) THEN q + 1 ELSE q

FormatDigits(num, digits) ==
    Txt((IF num[1] < 0 THEN -1 ELSE 1)
            * RoundHalfEven((Abs(num[1]) \div num[2]) * 1000000 + digits[1],
                            digits[2], num[2]),
        6)

FormatF(num) ==
    FormatDigits(num, LongDivision(Abs(num[1]) % num[2], num[2], 6, 0))

intOrFloat(num) ==
    IF num[2] = 1 THEN Txt(num[1], 0) ELSE FormatF(num)

(***************************************************************************)
(* Paths.  A path is the sequence of its components; a document path and   *)
(* the path of a descriptor start at the root, a filename is relative.     *)
(***************************************************************************)
dirname(path) == SubSeq(path, 1, Len(path) - 1)

join(dir, filename) == dir \o filename

\* posix(): split at the separator and join again, which drops the empty
\* components.
posix(path) == SelectSeq(path, LAMBDA c : c # "")

\* os.path.normpath of a path from the root.
RECURSIVE normpathFrom(_, _, _)
normpathFrom(path, i, done) ==
    IF i > Len(path) THEN done
    ELSE IF path[i] = "." \/ path[i] = "" THEN normpathFrom(path, i + 1, done)
    ELSE IF path[i] = ".." THEN
        normpathFrom(path, i + 1,
                     IF done = << >> THEN done ELSE SubSeq(done, 1, Len(done) - 1))
    ELSE normpathFrom(path, i + 1, Append(done, path[i]))

abspath(path) == normpathFrom(path, 1, << >>)

RECURSIVE CommonPrefix(_, _, _)
CommonPrefix(a, b, i) ==
    IF i < Len(a) /\ i < Len(b) /\ a[i + 1] = b[i + 1]
    THEN CommonPrefix(a, b, i + 1) ELSE i

\* os.path.relpath, for p and s already through abspath
relativeFrom(p, s, c) ==
    IF Len(s) = c /\ Len(p) = c THEN <<".">>
    ELSE [k \in 1..(Len(s) - c) |-> ".."] \o SubSeq(p, c + 1, Len(p))

relativeTo(p, s) == relativeFrom(p, s, CommonPrefix(p, s, 0))

relpath(path, start) == relativeTo(abspath(path), abspath(start))

_posixRelativePath(self, otherPath) == posix(relpath(otherPath, dirname(self.path)))

(***************************************************************************)
(* The designspace file.  The root element is a record of its axis, rule,  *)
(* source and instance elements; an attribute or a child that is missing   *)
(* is None, Absent when it is a name.  A location element is a mapping     *)
(* from the names of its dimension elements to [xvalue, yvalue].           *)
(***************************************************************************)
Absent == "(absent)"

Dimension(x, y) == [xvalue |-> x, yvalue |-> y]

AxisElement(n, t, lo, df, hi, mp) ==
    [name |-> n, tag |-> t, minimum |-> lo, default |-> df, maximum |-> hi, map |-> mp]

ConditionElement(n, lo, hi) == [name |-> n, minimum |-> lo, maximum |-> hi]

RuleElement(n, stray, sets, ss) ==
    [name |-> n, conditions |-> stray, conditionsets |-> sets, subs |-> ss]

SourceElement(fn, nm, loc, ci) ==
    [filename |-> fn, name |-> nm, location |-> loc,
     copyLib |-> FALSE, copyInfo |-> ci, copyGroups |-> FALSE,
     copyFeatures |-> FALSE, muteKerning |-> FALSE, muteInfo |-> FALSE,
     mutedGlyphNames |-> << >>]

MasterElement(src, g, loc) == [source |-> src, glyphname |-> g, location |-> loc]

GlyphElement(nm, mt, loc, ms) ==
    [name |-> nm, mute |-> mt, location |-> loc, masters |-> ms]

InstanceElement(fn, nm, loc, gl, k, i) ==
    [filename |-> fn, name |-> nm, location |-> loc, glyphs |-> gl,
     kerning |-> k, info |-> i]

Root(ax, ru, so, ins) ==
    [axes |-> ax, rules |-> ru, sources |-> so, instances |-> ins]

(***************************************************************************)
(* BaseDocReader.                                                          *)
(***************************************************************************)
\* reader.axisDefaults once readAxes is through
axisDefaults(root) ==
    [n \in AxisNames(root.axes) |-> float(LastAxis(root.axes, n).default)]

_strictAxisNames(root) == Len(root.axes) # 0

axisFromElement(e) ==
    Axis(e.name, e.tag, float(e.minimum), float(e.default), float(e.maximum),
         [k \in 1..Len(e.map) |-> <<float(e.map[k][1]), float(e.map[k][2])>>])

readAxes(self, root) ==
    IF Len(root.axes) = 0 THEN self
    ELSE [self EXCEPT
            !.axes = @ \o [i \in 1..Len(root.axes) |-> axisFromElement(root.axes[i])],
            !.defaultLoc = Some(axisDefaults(root))]

_readConditionElements(conditions) ==
    [k \in 1..Len(conditions) |->
        [name |-> conditions[k].name,
         minimum |-> IF conditions[k].minimum # None
                     THEN float(conditions[k].minimum) ELSE None,
         maximum |-> IF conditions[k].maximum # None
                     THEN float(conditions[k].maximum) ELSE None]]

ruleFromElement(e) ==
    [name |-> e.name,
     conditionSets |->
         (IF Len(e.conditions) # 0
          THEN <<_readConditionElements(e.conditions)>> ELSE << >>) \o
         [k \in 1..Len(e.conditionsets) |-> _readConditionElements(e.conditionsets[k])],
     subs |-> e.subs]

readRules(self, root) ==
    [self EXCEPT !.rules = [i \in 1..Len(root.rules) |-> ruleFromElement(root.rules[i])]]

dimensionValue(element) ==
    IF element.yvalue # None
    THEN float(element.xvalue) \o float(element.yvalue)
    ELSE float(element.xvalue)

readLocationElement(self, root, locationElement) ==
    IF self.axes = << >> THEN Raised
    ELSE Returned(Some(
            [n \in {m \in DOMAIN locationElement :
                        ~_strictAxisNames(root) \/ m \in DOMAIN axisDefaults(root)} |->
                dimensionValue(locationElement[n])]))

\* The location of an element, None when it has no location child.
locationFromElement(self, root, locationElement) ==
    IF locationElement = None THEN Returned(None)
    ELSE readLocationElement(self, root, locationElement[1])

TempNames == <<"temp_master.0", "temp_master.1", "temp_master.2", "temp_master.3">>

\* The path setter of a descriptor
posixOptional(path) == IF path = None THEN None ELSE posix(path)

sourceFromElement(self, e, i, location) ==
    [filename |-> posixOptional(e.filename),
     path |-> IF e.filename # None /\ self.path # None
              THEN posix(abspath(join(dirname(self.path), e.filename)))
              ELSE None,
     name |-> IF e.name = Absent THEN TempNames[i] ELSE e.name,
     location |-> location,
     copyLib |-> e.copyLib, copyInfo |-> e.copyInfo,
     copyGroups |-> e.copyGroups, copyFeatures |-> e.copyFeatures,
     muteKerning |-> e.muteKerning, muteInfo |-> e.muteInfo,
     mutedGlyphNames |-> e.mutedGlyphNames]

RECURSIVE readSources(_, _, _)
readSourceAt(self, root, i, loc) ==
    IF loc.raised THEN [raised |-> TRUE, value |-> self]
    ELSE readSources(
            [self EXCEPT
                !.sources = Append(@, sourceFromElement(self, root.sources[i], i, loc.value))],
            root, i + 1)

readSources(self, root, i) ==
    IF i > Len(root.sources) THEN Returned(self)
    ELSE readSourceAt(self, root, i,
                      locationFromElement(self, root, root.sources[i].location))

RECURSIVE readMasterElements(_, _, _, _, _, _)
readMasterAt(self, root, glyphName, masters, i, done, loc) ==
    IF loc.raised THEN Raised
    ELSE readMasterElements(self, root, glyphName, masters, i + 1,
            Append(done,
                   Master(masters[i].source,
                          IF masters[i].glyphname = Absent
                          THEN glyphName ELSE masters[i].glyphname,
                          loc.value)))

readMasterElements(self, root, glyphName, masters, i, done) ==
    IF i > Len(masters) THEN Returned(done)
    ELSE readMasterAt(self, root, glyphName, masters, i, done,
                      locationFromElement(self, root, masters[i].location))

\* instanceObject.glyphs[glyphName] = glyphData
PutGlyph(glyphs, glyphData) ==
    IF \E k \in 1..Len(glyphs) : glyphs[k].name = glyphData.name
    THEN [k \in 1..Len(glyphs) |->
             IF glyphs[k].name = glyphData.name THEN glyphData ELSE glyphs[k]]
    ELSE Append(glyphs, glyphData)

\* readGlyphElement; glyphData gets the key masters only when there was a
\* master element.
RECURSIVE readGlyphElements(_, _, _, _, _)
readGlyphMasters(self, root, elements, i, glyphs, loc, ms) ==
    IF ms.raised THEN Raised
    ELSE readGlyphElements(self, root, elements, i + 1,
            PutGlyph(glyphs,
                     GlyphData(elements[i].name, elements[i].mute, loc.value,
                               IF Len(ms.value) = 0 THEN None ELSE Some(ms.value))))

readGlyphAt(self, root, elements, i, glyphs, loc) ==
    IF loc.raised THEN Raised
    ELSE readGlyphMasters(self, root, elements, i, glyphs, loc,
            IF elements[i].masters = None THEN Returned(<< >>)
            ELSE readMasterElements(self, root, elements[i].name,
                                    elements[i].masters[1], 1, << >>))

readGlyphElements(self, root, elements, i, glyphs) ==
    IF i > Len(elements) THEN Returned(glyphs)
    ELSE readGlyphAt(self, root, elements, i, glyphs,
                     locationFromElement(self, root, elements[i].location))

instanceFromElement(self, e, location, glyphs) ==
    [filename |-> posixOptional(e.filename),
     path |-> IF e.filename # None
              THEN posix(join(dirname(self.path), e.filename)) ELSE None,
     name |-> e.name,
     location |-> location,
     glyphs |-> glyphs,
     kerning |-> TRUE,
     info |-> TRUE]

\* _readSingleInstanceElement, element after element
RECURSIVE readInstances(_, _, _)
readInstanceGlyphs(self, root, i, loc, gl) ==
    IF gl.raised THEN [raised |-> TRUE, value |-> self]
    ELSE readInstances(
            [self EXCEPT
                !.instances =
                    Append(@, instanceFromElement(self, root.instances[i], loc.value, gl.value))],
            root, i + 1)

readInstanceAt(self, root, i, loc) ==
    IF loc.raised THEN [raised |-> TRUE, value |-> self]
    ELSE readInstanceGlyphs(self, root, i, loc,
                            readGlyphElements(self, root, root.instances[i].glyphs, 1, << >>))

readInstances(self, root, i) ==
    IF i > Len(root.instances) THEN Returned(self)
    ELSE readInstanceAt(self, root, i,
                        locationFromElement(self, root, root.instances[i].location))

\* DesignSpaceDocument.read(path); root is what is stored at path, None when
\* there is no such file.
readAfterInstances(n) ==
    IF n.raised THEN n
    ELSE Returned(IF Len(n.value.sources) # 0 THEN findDefault(n.value).self
                  ELSE n.value)

readAfterSources(s, root) ==
    IF s.raised THEN s
    ELSE readAfterInstances(readInstances(s.value, root, 1))

read(self, path, root) ==
    IF root = None THEN [raised |-> TRUE, value |-> [self EXCEPT !.path = path]]
    ELSE readAfterSources(
            readSources(readRules(readAxes([self EXCEPT !.path = path], root), root),
                        root, 1),
            root)

(***************************************************************************)
(* DesignSpaceDocument.write and BaseDocWriter.                            *)
(***************************************************************************)
\* The same without case 4: a filename that is set is left alone
updatePathUnlessSet(self, descriptor) ==
    IF descriptor.path # None /\ self.path # None /\ descriptor.filename = None
    THEN [descriptor EXCEPT !.filename = _posixRelativePath(self, descriptor.path)]
    ELSE descriptor

\* Case 3 and case 4 both end with the filename computed from the path: the
\* "is not" of case 4 compares a string with one just built.
updatePath(self, descriptor) ==
    IF descriptor.path # None /\ self.path # None
    THEN [descriptor EXCEPT !.filename = _posixRelativePath(self, descriptor.path)]
    ELSE descriptor

updatePaths(self) ==
    [self EXCEPT
        !.sources = [i \in 1..Len(@) |-> updatePath(self, @[i])],
        !.instances = [i \in 1..Len(@) |-> updatePath(self, @[i])]]

\* The same without the test "axisName in validatedLocation"
validatedLocationUnchecked(self, locationObject) ==
    locationObject @@ [n \in AxisNames(self.axes) |-> LastAxis(self.axes, n).default]

\* _makeLocationElement returns the pair (locElement, validatedLocation):
\* the default of every axis, overridden by what locationObject gives for it
validatedLocation(self, locationObject) ==
    [n \in AxisNames(self.axes) |->
        IF n \in DOMAIN locationObject THEN locationObject[n]
        ELSE LastAxis(self.axes, n).default]

dimensionElement(value) ==
    IF IsTuple(value)
    THEN Dimension(intOrFloat(SubSeq(value, 1, 2)), intOrFloat(SubSeq(value, 3, 4)))
    ELSE Dimension(intOrFloat(value), None)

locElement(self, locationObject) ==
    [n \in AxisNames(self.axes) |->
        dimensionElement(validatedLocation(self, locationObject)[n])]

\* An optional location: nothing is written and nothing changes for None.
validatedOptional(self, location) ==
    IF location = None THEN None ELSE Some(validatedLocation(self, location[1]))

locElementOptional(self, location) ==
    IF location = None THEN None ELSE Some(locElement(self, location[1]))

_addAxis(axisObject) ==
    AxisElement(axisObject.name, axisObject.tag, intOrFloat(axisObject.minimum),
                intOrFloat(axisObject.default), intOrFloat(axisObject.maximum),
                [k \in 1..Len(axisObject.map) |->
                    <<intOrFloat(axisObject.map[k][1]), intOrFloat(axisObject.map[k][2])>>])

conditionElement(cond) ==
    ConditionElement(cond.name,
        IF cond.minimum # None THEN intOrFloat(cond.minimum) ELSE None,
        IF cond.maximum # None THEN intOrFloat(cond.maximum) ELSE None)

\* A condition with neither bound is not added.
boundConditions(conditions) ==
    SelectSeq(conditions, LAMBDA cond : ~(cond.minimum = None /\ cond.maximum = None))

conditionElements(kept) == [k \in 1..Len(kept) |-> conditionElement(kept[k])]

_conditionsetElement(conditions) == conditionElements(boundConditions(conditions))

\* The rule element; it is appended only when it has a child.
_ruleElement(ruleObject) ==
    RuleElement(ruleObject.name, << >>,
        SelectSeq([c \in 1..Len(ruleObject.conditionSets) |->
                      _conditionsetElement(ruleObject.conditionSets[c])],
                  LAMBDA e : Len(e) # 0),
        ruleObject.subs)

_addRules(rules) ==
    SelectSeq([r \in 1..Len(rules) |-> _ruleElement(rules[r])],
              LAMBDA e : Len(e.conditionsets) + Len(e.subs) # 0)

TempMasterNames == {TempNames[k] : k \in DOMAIN TempNames}

sourceElement(self, sourceObject) ==
    [filename |-> sourceObject.filename,
     name |-> IF sourceObject.name # Absent /\ sourceObject.name \notin TempMasterNames
              THEN sourceObject.name ELSE Absent,
     location |-> Some(locElement(self, sourceObject.location[1])),
     copyLib |-> sourceObject.copyLib, copyInfo |-> sourceObject.copyInfo,
     copyGroups |-> sourceObject.copyGroups,
     copyFeatures |-> sourceObject.copyFeatures,
     muteKerning |-> sourceObject.muteKerning,
     muteInfo |-> sourceObject.muteInfo,
     mutedGlyphNames |-> sourceObject.mutedGlyphNames]

\* The sources in turn: [raised, value, elements] with value the sources
\* as the writer leaves them.  A source without location raises.
RECURSIVE _addSources(_, _, _, _)
_addSources(self, sources, i, elements) ==
    IF i > Len(sources) THEN [raised |-> FALSE, value |-> sources, elements |-> elements]
    ELSE IF sources[i].location = None
    THEN [raised |-> TRUE, value |-> sources, elements |-> elements]
    ELSE _addSources(self,
            [sources EXCEPT ![i].location = validatedOptional(self, @)],
            i + 1, Append(elements, sourceElement(self, sources[i])))

GlyphOrder == <<"a", "b", "c">>
GlyphRank(name) == CHOOSE k \in DOMAIN GlyphOrder : GlyphOrder[k] = name

\* sorted(instanceObject.glyphs.items())
sortedGlyphs(glyphs) ==
    SortSeq(glyphs, LAMBDA x, y : GlyphRank(x.name) < GlyphRank(y.name))

\* What _writeGlyphElement leaves in data
writtenMasters(self, masters) ==
    [k \in 1..Len(masters) |->
        [masters[k] EXCEPT !.location = validatedOptional(self, @)]]

_writtenGlyphData(self, data) ==
    [data EXCEPT
        !.instanceLocation = validatedOptional(self, @),
        !.masters = IF @ = None THEN None ELSE Some(writtenMasters(self, @[1]))]

masterElement(self, m) ==
    MasterElement(m.font, m.glyphName, locElementOptional(self, m.location))

_writeGlyphElement(self, data) ==
    GlyphElement(data.name, data.mute,
        locElementOptional(self, data.instanceLocation),
        IF data.masters = None THEN None
        ELSE Some([k \in 1..Len(data.masters[1]) |->
                     masterElement(self, data.masters[1][k])]))

_writtenInstance(self, instanceObject) ==
    [instanceObject EXCEPT
        !.location = validatedOptional(self, @),
        !.glyphs = [k \in 1..Len(@) |-> _writtenGlyphData(self, @[k])]]

glyphElements(self, ordered) ==
    [k \in 1..Len(ordered) |-> _writeGlyphElement(self, ordered[k])]

_addInstance(self, instanceObject) ==
    InstanceElement(instanceObject.filename, instanceObject.name,
        locElementOptional(self, instanceObject.location),
        glyphElements(self, sortedGlyphs(instanceObject.glyphs)),
        instanceObject.kerning, instanceObject.info)

\* DesignSpaceDocument.write(path): [raised, value, root].  root is the
\* file written, None when the writer raised before it got to the file.
writeAfterSources(self, s) ==
    IF s.raised
    THEN [raised |-> TRUE, value |-> [self EXCEPT !.sources = s.value], root |-> None]
    ELSE [raised |-> FALSE,
          value |-> [self EXCEPT
                        !.sources = s.value,
                        !.instances = [i \in 1..Len(@) |-> _writtenInstance(self, @[i])]],
          root |-> Root([i \in 1..Len(self.axes) |-> _addAxis(self.axes[i])],
                        _addRules(self.rules),
                        s.elements,
                        [i \in 1..Len(self.instances) |->
                            _addInstance(self, self.instances[i])])]

writeUpdated(self) == writeAfterSources(self, _addSources(self, self.sources, 1, << >>))

write(self, path) == writeUpdated(updatePaths([self EXCEPT !.path = path]))

(***************************************************************************)
(* A document in use: built through addAxis, addSource, addInstance and    *)
(* addRule, read from and written to the files at DocPaths, normalized,    *)
(* asked for its default.  file maps a path to the root stored there, None *)
(* where there is no file.  An exception ends the run; hist keeps the      *)
(* number of calls made, the document as it was before the last call, and  *)
(* whether only addAxis, read and normalize have been called.              *)
(***************************************************************************)
InputPath == <<"proj", "a.designspace">>
OtherPath == <<"proj", "out", "b.designspace">>
DocPaths == {InputPath, OtherPath}

LightPath == <<"proj", "masters", "light.ufo">>
BoldPath == <<"proj", "masters", "bold.ufo">>
MediumPath == <<"proj", "instances", "medium.ufo">>

ApiAxes ==
    { Axis("weight", "wght", Num(0), Num(0), Num(1000), << >>),
      Axis("width", "wdth", Num(0), Num(500), Num(1000), << <<Num(0), Num(250)>> >>) }

ApiSources ==
    { Source(None, LightPath, "master.light", Some([weight |-> Num(0)]), FALSE),
      Source(None, BoldPath, "master.bold", Some([weight |-> Num(1000)]), TRUE),
      Source(None, LightPath, "master.nowhere", None, FALSE) }

ApiInstances ==
    { Instance(None, MediumPath, "instance.medium", Some([weight |-> Num(500)]), << >>) }

ApiRules ==
    { Rule(<< <<Cond("weight", Num(250), Num(750))>> >>, << <<"a", "b">> >>) }

X(m) == Dimension(Txt(m, 0), None)

WeightAxisElement(df) ==
    AxisElement("weight", "wght", Txt(0, 0), Txt(df, 0), Txt(1000, 0), << >>)

WeightRuleElement ==
    RuleElement("rule", << >>,
                << <<ConditionElement("weight", Txt(250, 0), Txt(750, 0))>> >>,
                << <<"a", "b">> >>)

\* weight 0..1000 with the given default, the rule weight in [250, 750],
\* a light and a bold source, an instance with the given glyphs
WeightFile(df, glyphs) ==
    Root(<<WeightAxisElement(df)>>,
         <<WeightRuleElement>>,
         <<SourceElement(<<"masters", "light.ufo">>, "master.light",
                         Some([weight |-> X(0)]), FALSE),
           SourceElement(<<"masters", "bold.ufo">>, "master.bold",
                         Some([weight |-> X(1000)]), TRUE)>>,
         <<InstanceElement(<<"instances", "medium.ufo">>, "instance.medium",
                           Some([weight |-> X(500)]), glyphs, TRUE, TRUE)>>)

BareGlyph == GlyphElement("a", FALSE, None, None)
FullGlyph ==
    GlyphElement("a", FALSE, Some([weight |-> X(250)]),
                 Some(<<MasterElement("master.light", Absent, Some([weight |-> X(0)])),
                        MasterElement("master.bold", "b", Some([weight |-> X(1000)]))>>))

\* Sources and no axes: without locations, and with one
NoAxesFile(loc) ==
    Root(<< >>, << >>,
         <<SourceElement(<<"masters", "light.ufo">>, Absent, loc, TRUE)>>,
         << >>)

DocumentFiles ==
    { WeightFile(0, <<BareGlyph>>), WeightFile(500, <<FullGlyph>>),
      WeightFile(0, << >>),
      NoAxesFile(None), NoAxesFile(Some([weight |-> X(0)])) }

AddAxis(axisDescriptor) ==
    /\ doc' = [doc EXCEPT !.axes = Append(@, axisDescriptor)]
    /\ ret' = Returned(None)
    /\ op' = "addAxis"
    /\ hist' = [nops |-> hist.nops + 1, before |-> doc, plain |-> hist.plain]
    /\ UNCHANGED file

AddSource(sourceDescriptor) ==
    /\ doc' = [doc EXCEPT !.sources = Append(@, sourceDescriptor)]
    /\ ret' = Returned(None)
    /\ op' = "addSource"
    /\ hist' = [nops |-> hist.nops + 1, before |-> doc, plain |-> FALSE]
    /\ UNCHANGED file

AddInstance(instanceDescriptor) ==
    /\ doc' = [doc EXCEPT !.instances = Append(@, instanceDescriptor)]
    /\ ret' = Returned(None)
    /\ op' = "addInstance"
    /\ hist' = [nops |-> hist.nops + 1, before |-> doc, plain |-> FALSE]
    /\ UNCHANGED file

AddRule(ruleDescriptor) ==
    /\ doc' = [doc EXCEPT !.rules = Append(@, ruleDescriptor)]
    /\ ret' = Returned(None)
    /\ op' = "addRule"
    /\ hist' = [nops |-> hist.nops + 1, before |-> doc, plain |-> FALSE]
    /\ UNCHANGED file

Read(path) ==
    \E r \in {read(doc, path, file[path])} :
        /\ doc' = r.value
        /\ ret' = [raised |-> r.raised, value |-> None]
        /\ op' = "read"
        /\ hist' = [nops |-> hist.nops + 1, before |-> doc, plain |-> hist.plain]
        /\ UNCHANGED file

Write(path) ==
    \E w \in {write(doc, path)} :
        /\ doc' = w.value
        /\ file' = IF w.raised THEN file ELSE [file EXCEPT ![path] = w.root]
        /\ ret' = [raised |-> w.raised, value |-> None]
        /\ op' = "write"
        /\ hist' = [nops |-> hist.nops + 1, before |-> doc, plain |-> FALSE]

Normalize ==
    \E r \in {normalize(doc)} :
        /\ doc' = r.value
        /\ ret' = [raised |-> r.raised, value |-> None]
        /\ op' = "normalize"
        /\ hist' = [nops |-> hist.nops + 1, before |-> doc, plain |-> hist.plain]
        /\ UNCHANGED file

FindDefault ==
    \E r \in {findDefault(doc)} :
        /\ doc' = r.self
        /\ ret' = Returned(r.value)
        /\ op' = "findDefault"
        /\ hist' = [nops |-> hist.nops + 1, before |-> doc, plain |-> FALSE]
        /\ UNCHANGED file

InitDocument ==
    /\ op = "init"
    /\ py2 = FALSE /\ inp = NoInput /\ out = NoOutput
    /\ doc = NewDocument /\ doc2 = NewDocument
    /\ \E root \in DocumentFiles :
            file = [p \in DocPaths |-> IF p = InputPath THEN root ELSE None]
    /\ proc = NewProcessor
    /\ ret = Returned(None)
    /\ hist = [nops |-> 0, before |-> NewDocument, plain |-> TRUE]

DocumentCall ==
    \/ \E a \in ApiAxes : AddAxis(a)
    \/ \E s \in ApiSources : AddSource(s)
    \/ \E i \in ApiInstances : AddInstance(i)
    \/ \E r \in ApiRules : AddRule(r)
    \/ \E p \in DocPaths : Read(p)
    \/ \E p \in DocPaths : Write(p)
    \/ Normalize
    \/ FindDefault

NextDocument ==
    /\ hist.nops < MaxOps
    /\ ~ret.raised
    /\ DocumentCall
    /\ UNCHANGED <<py2, inp, out, doc2, proc>>

SpecDocument == InitDocument /\ [][NextDocument]_vars

(***************************************************************************)
(* The round trip: a document reads the file at InputPath, writes itself   *)
(* back to that path, and a new document reads what was written.  hist     *)
(* keeps the first document as read() left it.                             *)
(***************************************************************************)
SourceXValues == {Txt(0, 0), Txt(1000, 0), Txt(25, 1), Txt(125, 3), Txt(1234567, 7)}
SourceYValues == {None, Txt(3, 0)}
ConditionBounds ==
    { <<Txt(250, 0), Txt(750, 0)>>, <<Txt(250, 0), None>>, <<None, None>> }
SourceNames == {Absent, "master.light"}
InstanceFilenames == { <<"instances", "medium.ufo">>, <<".", "medium.ufo">> }

\* The axes weight and width, one rule with one condition, the source
\* whose location is given, an instance
RoundTripFile(srcName, srcLocation, bounds, instFilename) ==
    Root(<<WeightAxisElement(0),
           AxisElement("width", "wdth", Txt(0, 0), Txt(5, 1), Txt(1, 0),
                       << <<Txt(0, 0), Txt(25, 2)>> >>)>>,
         <<RuleElement("rule", << >>,
                       << <<ConditionElement("weight", bounds[1], bounds[2])>> >>,
                       << <<"a", "b">> >>)>>,
         <<SourceElement(<<"masters", "light.ufo">>, srcName, srcLocation, TRUE)>>,
         <<InstanceElement(instFilename, "instance.medium",
                           Some([weight |-> X(500), width |-> X(1)]),
                           << >>, TRUE, TRUE)>>)

SourceLocations ==
    {Some([weight |-> Dimension(x, y)]) : x \in SourceXValues, y \in SourceYValues}
    \cup {Some([weight |-> Dimension(x, y), width |-> X(1)]) :
             x \in SourceXValues, y \in SourceYValues}
    \cup {None}

RoundTripFiles ==
    {RoundTripFile(n, l, b, f) :
        n \in SourceNames, l \in SourceLocations,
        b \in ConditionBounds, f \in InstanceFilenames}

ReadFirst ==
    /\ op = "init"
    /\ \E r \in {read(doc, InputPath, file[InputPath])} :
            /\ doc' = r.value
            /\ ret' = [raised |-> r.raised, value |-> None]
            /\ hist' = [first |-> r.value]
            /\ op' = "read"
            /\ UNCHANGED <<doc2, file>>

WriteBack ==
    /\ op = "read" /\ ~ret.raised
    /\ \E w \in {write(doc, InputPath)} :
            /\ doc' = w.value
            /\ file' = IF w.raised THEN file ELSE [file EXCEPT ![InputPath] = w.root]
            /\ ret' = [raised |-> w.raised, value |-> None]
            /\ op' = "write"
            /\ UNCHANGED <<doc2, hist>>

ReadAgain ==
    /\ op = "write" /\ ~ret.raised
    /\ \E r \in {read(doc2, InputPath, file[InputPath])} :
            /\ doc2' = r.value
            /\ ret' = [raised |-> r.raised, value |-> None]
            /\ op' = "reread"
            /\ UNCHANGED <<doc, file, hist>>

InitRoundTrip ==
    /\ op = "init"
    /\ py2 = FALSE /\ inp = NoInput /\ out = NoOutput
    /\ doc = NewDocument /\ doc2 = NewDocument
    /\ \E root \in RoundTripFiles :
            file = [p \in DocPaths |-> IF p = InputPath THEN root ELSE None]
    /\ proc = NewProcessor
    /\ ret = Returned(None)
    /\ hist = [first |-> NewDocument]

NextRoundTrip ==
    /\ \/ ReadFirst
       \/ WriteBack
       \/ ReadAgain
    /\ UNCHANGED <<py2, inp, out, proc>>

SpecRoundTrip == InitRoundTrip /\ [][NextRoundTrip]_vars

(***************************************************************************)
(* Locations that name an axis nobody declared.  The files declare weight  *)
(* (or nothing) and give width in the locations of the source, of the      *)
(* instance, of its glyph and of the glyph's master; the descriptors added *)
(* through addSource and addInstance do the same.                          *)
(***************************************************************************)
StrayGlyph ==
    GlyphElement("a", FALSE, Some([weight |-> X(250), width |-> X(7)]),
                 Some(<<MasterElement("master.light", Absent, Some([width |-> X(7)]))>>))

StrayFile(glyphs) ==
    Root(<<WeightAxisElement(0)>>, << >>,
         <<SourceElement(<<"masters", "light.ufo">>, "master.light",
                         Some([weight |-> X(0), width |-> X(7)]), FALSE)>>,
         <<InstanceElement(<<"instances", "medium.ufo">>, "instance.medium",
                           Some([width |-> X(7)]), glyphs, TRUE, TRUE)>>)

StrictFiles ==
    { StrayFile(<<StrayGlyph>>), StrayFile(<< >>), WeightFile(0, <<FullGlyph>>),
      NoAxesFile(Some([weight |-> X(0)])) }

StraySources ==
    { Source(None, LightPath, "master.light",
             Some([weight |-> Num(0), width |-> Num(7)]), FALSE),
      Source(None, LightPath, "master.nowhere", None, FALSE) }

StrayInstances ==
    { Instance(None, MediumPath, "instance.medium", Some([width |-> Num(7)]),
               <<GlyphData("a", FALSE, Some([weight |-> Num(250), width |-> Num(7)]),
                           Some(<<Master("master.light", "a",
                                         Some([width |-> Num(7)]))>>))>>),
      Instance(None, MediumPath, "instance.bare", None,
               <<GlyphData("a", FALSE, None, None)>>) }

InitStrict ==
    /\ op = "init"
    /\ py2 = FALSE /\ inp = NoInput /\ out = NoOutput
    /\ doc = NewDocument /\ doc2 = NewDocument
    /\ \E root \in StrictFiles :
            file = [p \in DocPaths |-> IF p = InputPath THEN root ELSE None]
    /\ proc = NewProcessor
    /\ ret = Returned(None)
    /\ hist = [nops |-> 0, before |-> NewDocument, plain |-> TRUE]

StrictCall ==
    \/ \E a \in ApiAxes : AddAxis(a)
    \/ \E s \in StraySources : AddSource(s)
    \/ \E i \in StrayInstances : AddInstance(i)
    \/ \E p \in DocPaths : Read(p)
    \/ \E p \in DocPaths : Write(p)

NextStrict ==
    /\ hist.nops < MaxOps
    /\ ~ret.raised
    /\ StrictCall
    /\ UNCHANGED <<py2, inp, out, doc2, proc>>

SpecStrict == InitStrict /\ [][NextStrict]_vars

(***************************************************************************)
(* Filenames and paths: descriptors with and without a filename, with and  *)
(* without a path, added to a new document, which is then written to one   *)
(* of the two document paths.                                              *)
(***************************************************************************)
PathFilenames == { None, <<"masters", "light.ufo">>, <<"..", "elsewhere.ufo">> }
PathPaths == { None, LightPath, MediumPath }

PathSources ==
    { Source(fn, pth, "master", Some(EmptyLocation), FALSE) :
        fn \in PathFilenames, pth \in PathPaths }

PathInstances ==
    { Instance(fn, pth, "instance", Some(EmptyLocation), << >>) :
        fn \in PathFilenames, pth \in PathPaths }

InitPaths ==
    /\ op = "init"
    /\ py2 = FALSE /\ inp = NoInput /\ out = NoOutput
    /\ doc = NewDocument /\ doc2 = NewDocument
    /\ file = [p \in DocPaths |-> None]
    /\ proc = NewProcessor
    /\ ret = Returned(None)
    /\ hist = [nops |-> 0, before |-> NewDocument, plain |-> TRUE]

PathsCall ==
    \/ \E s \in PathSources : AddSource(s)
    \/ \E i \in PathInstances : AddInstance(i)
    \/ \E p \in DocPaths : Write(p)

NextPaths ==
    /\ hist.nops < MaxOps
    /\ ~ret.raised
    /\ PathsCall
    /\ UNCHANGED <<py2, inp, out, doc2, proc>>

SpecPaths == InitPaths /\ [][NextPaths]_vars

(***************************************************************************)
(* A rule added with addRule and an instance added with addInstance,       *)
(* written, and read back by a new document; then evaluateRule on the rule *)
(* in memory and on the rule read back, for a location that gives the axis *)
(* the conditions name.                                                    *)
(***************************************************************************)
TripMinimums == {None, Num(250)}
TripMaximums == {None, Num(750)}
TripConditions == {Cond("weight", lo, hi) : lo \in TripMinimums, hi \in TripMaximums}

\* No condition set, an empty one, one condition, an empty set and a condition
TripConditionSets ==
    { << >>, << << >> >> }
    \cup { << <<c>> >> : c \in TripConditions }
    \cup { << <<c>>, << >> >> : c \in TripConditions }

TripSubs == { << >>, << <<"a", "b">> >> }
TripRules == {Rule(cs, ss) : cs \in TripConditionSets, ss \in TripSubs}
TripLocations == {[weight |-> Num(0)], [weight |-> Num(500)], [weight |-> Num(1000)]}

\* instance.kerning and instance.info as the caller set them
TripInstance(kerning, info) ==
    [Instance(None, MediumPath, "instance.medium", Some([weight |-> Num(500)]), << >>)
        EXCEPT !.kerning = kerning, !.info = info]

\* The rule a document holds, or (when the list is empty) no rule
evaluateRuleOf(rules, location) ==
    IF Len(rules) = 0 THEN "Missing" ELSE evaluateRule(rules[1], location)

WriteRule ==
    /\ op = "init"
    /\ \E w \in {write(doc, InputPath)} :
            /\ doc' = w.value
            /\ file' = IF w.raised THEN file ELSE [file EXCEPT ![InputPath] = w.root]
            /\ ret' = [raised |-> w.raised, value |-> None]
    /\ op' = "write"
    /\ UNCHANGED <<doc2, inp, out>>

ReadRule ==
    /\ op = "write" /\ ~ret.raised
    /\ \E r \in {read(doc2, InputPath, file[InputPath])} :
            /\ doc2' = r.value
            /\ ret' = [raised |-> r.raised, value |-> None]
    /\ op' = "read"
    /\ UNCHANGED <<doc, file, inp, out>>

EvaluateBoth(location) ==
    /\ op = "read" /\ ~ret.raised
    /\ inp' = [fn |-> "evaluateRule", location |-> location]
    /\ out' = [memory |-> evaluateRuleOf(doc.rules, location),
               readBack |-> evaluateRuleOf(doc2.rules, location)]
    /\ op' = "evaluateRule"
    /\ UNCHANGED <<doc, doc2, file, ret>>

InitRuleTrip ==
    /\ op = "init"
    /\ py2 \in BOOLEAN /\ inp = NoInput /\ out = NoOutput
    /\ \E rule \in TripRules, kerning \in BOOLEAN, info \in BOOLEAN :
            doc = [NewDocument EXCEPT
                      !.axes = <<Axis("weight", "wght", Num(0), Num(0), Num(1000), << >>)>>,
                      !.rules = <<rule>>,
                      !.instances = <<TripInstance(kerning, info)>>]
    /\ doc2 = NewDocument
    /\ file = [p \in DocPaths |-> None]
    /\ proc = NewProcessor
    /\ ret = Returned(None)
    /\ hist = [nops |-> 0, before |-> NewDocument, plain |-> FALSE]

NextRuleTrip ==
    /\ \/ WriteRule
       \/ ReadRule
       \/ \E location \in TripLocations : EvaluateBoth(location)
    /\ UNCHANGED <<py2, proc, hist>>

SpecRuleTrip == InitRuleTrip /\ [][NextRuleTrip]_vars

(***************************************************************************)
(* The mutator cache of DesignSpaceProcessor.                              *)
(***************************************************************************)
CacheGlyphs == {"a", "b"}

cacheKeyNameOnly(glyphName, decomposeComponents) == <<glyphName, FALSE>>

cacheKey(glyphName, decomposeComponents) == <<glyphName, decomposeComponents>>

\* The masters of a glyph as the sources hold them now.
collectMastersForGlyph(self, glyphName, decomposeComponents) ==
    [glyphName |-> glyphName, decomposed |-> decomposeComponents,
     data |-> self.fonts[glyphName]]

Put(f, k, v) == [x \in DOMAIN f \cup {k} |-> IF x = k THEN v ELSE f[x]]

\* getGlyphMutator(glyphName, decomposeComponents, fromCache).  built says
\* whether the variation model can be constructed from the masters; when it
\* cannot, getVariationModel returns None and unpacking it raises.
GetGlyphMutator(glyphName, decomposeComponents, fromCache, built) ==
    LET key == cacheKey(glyphName, decomposeComponents)
        call == <<glyphName, decomposeComponents>>
        hit == key \in DOMAIN proc.glyphMutators /\ fromCache
        serial == hist.serial + 1
        thing == [items |-> collectMastersForGlyph(proc, glyphName, decomposeComponents),
                  serial |-> serial]
    IN  /\ hist.ncalls < MaxCalls
        /\ op' = "getGlyphMutator"
        /\ IF hit THEN
                /\ ret' = Returned(proc.glyphMutators[key])
                /\ proc' = proc
           ELSE IF built THEN
                /\ ret' = Returned(thing)
                /\ proc' = [proc EXCEPT !.glyphMutators = Put(@, key, thing)]
           ELSE
                /\ ret' = Raised
                /\ proc' = proc
        /\ hist' = [hist EXCEPT
                        !.ncalls = @ + 1,
                        !.calls[call] = @ + 1,
                        !.builds[call] = IF hit THEN @ ELSE @ + 1,
                        !.serial = IF hit THEN @ ELSE serial,
                        !.forced = @ \/ ~fromCache,
                        !.failed = @ \/ (~hit /\ ~built),
                        !.last = call]
        /\ UNCHANGED <<doc, doc2, file>>
        /\ UNCHANGED fnVars

\* The user edits a glyph in the source fonts the processor has loaded.
EditGlyph(glyphName) ==
    /\ proc.fonts[glyphName] < MaxRevision
    /\ proc' = [proc EXCEPT !.fonts[glyphName] = @ + 1]
    /\ op' = "editGlyph"
    /\ UNCHANGED <<doc, doc2, file, ret, hist>>
    /\ UNCHANGED fnVars

CacheCalls == CacheGlyphs \X BOOLEAN

InitCache ==
    /\ op = "init"
    /\ py2 = FALSE /\ inp = NoInput /\ out = NoOutput
    /\ doc = NewDocument /\ doc2 = NewDocument /\ file = None
    /\ proc = NewProcessor
    /\ ret = Returned(None)
    /\ hist = [ncalls |-> 0, serial |-> 0, forced |-> FALSE, failed |-> FALSE,
               last |-> <<"a", FALSE>>,
               calls |-> [c \in CacheCalls |-> 0],
               builds |-> [c \in CacheCalls |-> 0]]

NextCache ==
    \/ \E g \in CacheGlyphs, dc \in BOOLEAN, fromCache \in BOOLEAN, built \in BOOLEAN :
            GetGlyphMutator(g, dc, fromCache, built)
    \/ \E g \in CacheGlyphs : EditGlyph(g)

SpecCache == InitCache /\ [][NextCache]_vars

(***************************************************************************)
(* Reloading: read() again on the processor and loadFonts(reload=True),    *)
(* next to the three cached mutators.                                      *)
(***************************************************************************)
\* The file the processor's document is read from.
ProcessorFile == WeightFile(0, << >>)

\* getInfoMutator and getKerningMutator: the attribute is returned when it is
\* set; else the model is built from all sources and stored.  When it cannot
\* be built getVariationModel returns None, the unpacking raises and the
\* attribute keeps its value.
GetSingleMutator(attribute, opName, built) ==
    LET hit == proc[attribute] # None
        serial == hist.serial + 1
        thing == [items |-> proc.fonts, serial |-> serial]
    IN  /\ hist.ncalls < MaxCalls
        /\ op' = opName
        /\ IF hit THEN
                /\ ret' = Returned(proc[attribute])
                /\ proc' = proc
           ELSE IF built THEN
                /\ ret' = Returned(thing)
                /\ proc' = [proc EXCEPT ![attribute] = thing]
           ELSE
                /\ ret' = Raised
                /\ proc' = proc
        /\ hist' = [hist EXCEPT !.ncalls = @ + 1,
                                !.serial = IF hit \/ ~built THEN @ ELSE serial]
        /\ UNCHANGED <<doc, doc2, file>>
        /\ UNCHANGED fnVars

GetInfoMutator(built) == GetSingleMutator("infoMutator", "getInfoMutator", built)

GetKerningMutator(built) ==
    GetSingleMutator("kerningMutator", "getKerningMutator", built)

\* loadFonts(reload): returns at once when the fonts are loaded and reload is
\* False.  Otherwise it loads the sources whose name is not yet in self.fonts,
\* none here, and sets the flag; the three caches are not touched.
LoadFonts(reload) ==
    /\ hist.nreloads < MaxReloads
    /\ proc' = IF proc.fontsLoaded /\ ~reload THEN proc
               ELSE [proc EXCEPT !.fontsLoaded = TRUE]
    /\ ret' = Returned(None)
    /\ op' = "loadFonts"
    /\ hist' = [hist EXCEPT !.nreloads = @ + 1,
                            !.reloadedAt = IF reload THEN hist.serial ELSE @]
    /\ UNCHANGED <<doc, doc2, file>>
    /\ UNCHANGED fnVars

\* read() on the processor is DesignSpaceDocument.read: the processor does
\* not override it, and it assigns none of the processor's attributes.
ProcessorRead ==
    /\ hist.nreloads < MaxReloads
    /\ \E r \in {read(doc, InputPath, ProcessorFile)} :
            /\ doc' = r.value
            /\ ret' = [raised |-> r.raised, value |-> None]
    /\ op' = "read"
    /\ hist' = [hist EXCEPT !.nreloads = @ + 1, !.reloadedAt = hist.serial]
    /\ UNCHANGED <<doc2, file, proc>>
    /\ UNCHANGED fnVars

InitReload ==
    /\ op = "init"
    /\ py2 = FALSE /\ inp = NoInput /\ out = NoOutput
    /\ doc = read(NewDocument, InputPath, ProcessorFile).value
    /\ doc2 = NewDocument /\ file = None
    /\ proc = NewProcessor
    /\ ret = Returned(None)
    /\ hist = [ncalls |-> 0, serial |-> 0, forced |-> FALSE, failed |-> FALSE,
               last |-> <<"a", FALSE>>,
               calls |-> [c \in CacheCalls |-> 0],
               builds |-> [c \in CacheCalls |-> 0],
               nreloads |-> 0, reloadedAt |-> 0]

NextReload ==
    \/ \E g \in CacheGlyphs, dc \in BOOLEAN, fromCache \in BOOLEAN, built \in BOOLEAN :
            GetGlyphMutator(g, dc, fromCache, built)
    \/ \E built \in BOOLEAN : GetInfoMutator(built)
    \/ \E built \in BOOLEAN : GetKerningMutator(built)
    \/ \E g \in CacheGlyphs : EditGlyph(g)
    \/ \E reload \in BOOLEAN : LoadFonts(reload)
    \/ ProcessorRead

SpecReload == InitReload /\ [][NextReload]_vars

(***************************************************************************)
(* Variation models.  getVariationModel builds one of two things: a        *)
(* VariationModelMutator around fontTools' VariationModel, or mutatorMath's *)
(* Mutator.  Both libraries are modelled by what they compute for masters  *)
(* on one axis without a map: a location is taken at its position on that *)
(* axis.  A master value is a glyph [width, unicodes]; the arithmetic of   *)
(* MathGlyph acts on the width and keeps the unicodes of its left operand. *)
(* An item is <<location, value>>.                                         *)
(***************************************************************************)
Glyph(w, u) == [width |-> w, unicodes |-> u]
VAdd(a, b) == [a EXCEPT !.width = RAdd(a.width, b.width)]
VSub(a, b) == [a EXCEPT !.width = RSub(a.width, b.width)]
VScale(f, a) == [a EXCEPT !.width = RMul(f, a.width)]

\* DesignSpaceProcessor.__init__ with its two arguments
NewGenerator(ufoVersion, useVarlib) ==
    [ufoVersion |-> ufoVersion, useVarlib |-> useVarlib,
     glyphMutators |-> << >>, infoMutator |-> None, kerningMutator |-> None,
     fonts |-> << >>, fontsLoaded |-> FALSE, glyphNames |-> << >>,
     problems |-> << >>]

\* The processor is a document: self has the attributes of both.
Self(document, processor) == document @@ processor

varlibScale(c, axis) ==
    IF c = axis.default THEN Num(0)
    ELSE IF RLt(c, axis.default)
    THEN RDiv(RSub(c, axis.default), RSub(axis.default, axis.minimum))
    ELSE RDiv(RSub(c, axis.default), RSub(axis.maximum, axis.default))

\* fontTools.varLib.models.normalizeValue: clamps to the axis, then scales.
varlibNormalizeValue(v, axis) ==
    varlibScale(RMax(RMin(v, axis.maximum), axis.minimum), axis)

\* VariationModelMutator._normalize: fontTools' normalizeLocation over the
\* axes of the mutator; an axis the location lacks is at its default.
_normalize(axes, location) ==
    [n \in AxisNames(axes) |->
        varlibNormalizeValue(IF n \in DOMAIN location THEN location[n]
                             ELSE LastAxis(axes, n).default,
                             LastAxis(axes, n))]

\* VariationModel drops the axes that are at 0 from every location.
stripZeros(loc) == [n \in {k \in DOMAIN loc : loc[k] # Num(0)} |-> loc[n]]

\* The position of a stripped location on its one axis
Pos(loc) == IF DOMAIN loc = {} THEN Num(0) ELSE loc[CHOOSE n \in DOMAIN loc : TRUE]

Sign(r) == IF r[1] < 0 THEN -1 ELSE IF r[1] > 0 THEN 1 ELSE 0
RAbs(r) == <<Abs(r[1]), r[2]>>

\* The sort key of VariationModel: the base master first, then by sign,
\* then by distance from 0.
Before(a, b) ==
    \/ DOMAIN a = {} /\ DOMAIN b # {}
    \/ /\ DOMAIN a # {} /\ DOMAIN b # {}
       /\ \/ Sign(Pos(a)) < Sign(Pos(b))
          \/ Sign(Pos(a)) = Sign(Pos(b)) /\ RLt(RAbs(Pos(a)), RAbs(Pos(b)))

RSetMax(S) == CHOOSE x \in S : \A y \in S : RLe(y, x)
RSetMin(S) == CHOOSE x \in S : \A y \in S : RLe(x, y)

\* _computeMasterSupports: the region (lower, peak, upper) of the master at
\* index i of the sorted locations; masters before it on the same side cut
\* the region.  The base master has the empty region, None here.
supportAt(locations, i) ==
    IF DOMAIN locations[i] = {} THEN None
    ELSE IF Sign(Pos(locations[i])) > 0
    THEN [lower |-> RSetMax({Num(0)} \cup
                        {Pos(locations[j]) : j \in {k \in 1..(i - 1) :
                            /\ RLt(Num(0), Pos(locations[k]))
                            /\ RLt(Pos(locations[k]), Pos(locations[i]))}}),
          peak |-> Pos(locations[i]),
          upper |-> RSetMax({Pos(locations[j]) : j \in 1..Len(locations)})]
    ELSE [lower |-> RSetMin({Pos(locations[j]) : j \in 1..Len(locations)}),
          peak |-> Pos(locations[i]),
          upper |-> RSetMin({Num(0)} \cup
                        {Pos(locations[j]) : j \in {k \in 1..(i - 1) :
                            /\ RLt(Pos(locations[k]), Num(0))
                            /\ RLt(Pos(locations[i]), Pos(locations[k]))}})]

\* supportScalar at position v
supportScalar(v, support) ==
    IF support = None \/ v = support.peak THEN Num(1)
    ELSE IF RLe(v, support.lower) \/ RLe(support.upper, v) THEN Num(0)
    ELSE IF RLt(v, support.peak)
    THEN RDiv(RSub(v, support.lower), RSub(support.peak, support.lower))
    ELSE RDiv(RSub(v, support.upper), RSub(support.peak, support.upper))

\* VariationModel(locations): the locations sorted, the map from the sorted
\* order back to the caller's order, the supports.  It fails when no
\* location is the base.
VariationModelSorted(stripped, locations) ==
    [locations |-> locations,
     reverseMapping |-> [i \in 1..Len(locations) |->
        CHOOSE k \in 1..Len(stripped) :
            /\ stripped[k] = locations[i]
            /\ \A j \in 1..(k - 1) : stripped[j] # locations[i]],
     supports |-> [i \in 1..Len(locations) |-> supportAt(locations, i)]]

VariationModel(locations) ==
    IF \E i \in 1..Len(locations) : stripZeros(locations[i]) = << >>
    THEN Returned(VariationModelSorted(
            [i \in 1..Len(locations) |-> stripZeros(locations[i])],
            SortSeq([i \in 1..Len(locations) |-> stripZeros(locations[i])], Before)))
    ELSE Raised

\* VariationModelMutator(items, axes): the model over the normalized
\* locations, the masters in the order of the items.
VariationModelMutatorOver(items, axes, model) ==
    IF model.raised THEN Raised
    ELSE Returned([kind |-> "varlib", axes |-> axes, model |-> model.value,
                   masters |-> [i \in 1..Len(items) |-> items[i][2]]])

VariationModelMutator(items, axes) ==
    VariationModelMutatorOver(items, axes,
        VariationModel([i \in 1..Len(items) |-> _normalize(axes, items[i][1])]))

\* VariationModelMutator.get(key): the index of key among the locations of
\* the model, used as an index into the masters.
varlibGet(self, key) ==
    IF \E i \in 1..Len(self.model.locations) : self.model.locations[i] = key
    THEN self.masters[CHOOSE i \in 1..Len(self.model.locations) :
            /\ self.model.locations[i] = key
            /\ \A j \in 1..(i - 1) : self.model.locations[j] # key]
    ELSE None

\* VariationModel.getDeltas: in sorted order, each master less what the
\* deltas before it contribute at its location.
RECURSIVE lessPrior(_, _, _, _, _)
lessPrior(delta, model, i, j, done) ==
    IF j >= i THEN delta
    ELSE lessPrior(
            IF supportScalar(Pos(model.locations[i]), model.supports[j]) = Num(0)
            THEN delta
            ELSE VSub(delta, VScale(supportScalar(Pos(model.locations[i]),
                                                  model.supports[j]), done[j])),
            model, i, j + 1, done)

RECURSIVE getDeltas(_, _, _, _)
getDeltas(model, masterValues, i, done) ==
    IF i > Len(model.locations) THEN done
    ELSE getDeltas(model, masterValues, i + 1,
            Append(done, lessPrior(masterValues[model.reverseMapping[i]],
                                  model, i, 1, done)))

\* VariationModel.interpolateFromDeltas at position v
RECURSIVE interpolateFromDeltas(_, _, _, _, _)
interpolateFromDeltas(v, model, deltas, i, total) ==
    IF i > Len(deltas) THEN total
    ELSE interpolateFromDeltas(v, model, deltas, i + 1,
            IF supportScalar(v, model.supports[i]) = Num(0) THEN total
            ELSE IF total = None
            THEN Some(VScale(supportScalar(v, model.supports[i]), deltas[i]))
            ELSE Some(VAdd(total[1],
                           VScale(supportScalar(v, model.supports[i]), deltas[i]))))

\* VariationModelMutator.getFactors(location): the scalars of the supports
varlibGetFactors(self, location) ==
    [i \in 1..Len(self.model.locations) |->
        supportScalar(Pos(_normalize(self.axes, location)), self.model.supports[i])]

\* VariationModelMutator.makeInstance(location)
varlibMakeInstance(self, location) ==
    interpolateFromDeltas(Pos(_normalize(self.axes, location)), self.model,
                          getDeltas(self.model, self.masters, 1, << >>),
                          1, None)[1]

\* mutatorMath: the position of a Location on the one axis; an axis the
\* location lacks is at 0.
axisPosition(axes, location) ==
    IF axes[1].name \in DOMAIN location THEN location[axes[1].name] ELSE Num(0)

Positions(deltas) == {Num(0)} \cup {deltas[i].at : i \in 1..Len(deltas)}

\* The second smallest and the second largest of a set of positions
RSecondMin(S) == RSetMin(S \ {RSetMin(S)})
RSecondMax(S) == RSetMax(S \ {RSetMax(S)})

\* Mutator._calcOnAxisFactor: the factor at position f of the delta at v,
\* from the positions below f (B), above f (A) and at f.  Outside the
\* masters the two nearest positions carry the line on.
calcOnAxisFactorFrom(f, v, B, A, atF) ==
    IF atF THEN (IF f = v THEN Num(1) ELSE Num(0))
    ELSE IF B # {} /\ A # {} THEN
        IF RLt(v, RSetMax(B)) \/ RLt(RSetMin(A), v) THEN Num(0)
        ELSE IF v = RSetMin(A)
        THEN RDiv(RSub(f, RSetMax(B)), RSub(RSetMin(A), RSetMax(B)))
        ELSE RDiv(RSub(f, RSetMin(A)), RSub(RSetMax(B), RSetMin(A)))
    ELSE IF B = {} THEN
        IF v = RSecondMin(A)
        THEN RDiv(RSub(f, RSetMin(A)), RSub(RSecondMin(A), RSetMin(A)))
        ELSE IF v = RSetMin(A)
        THEN RDiv(RSub(f, RSecondMin(A)), RSub(RSetMin(A), RSecondMin(A)))
        ELSE Num(0)
    ELSE
        IF v = RSecondMax(B)
        THEN RDiv(RSub(f, RSetMax(B)), RSub(RSecondMax(B), RSetMax(B)))
        ELSE IF v = RSetMax(B)
        THEN RDiv(RSub(f, RSecondMax(B)), RSub(RSetMax(B), RSecondMax(B)))
        ELSE Num(0)

_calcOnAxisFactor(f, v, points) ==
    calcOnAxisFactorFrom(f, v, {p \in points : RLt(p, f)},
                         {p \in points : RLt(f, p)}, f \in points)

\* Mutator.addDelta: the mutator is a dict keyed by the location, a later
\* delta at the same place replaces the earlier one.
addDelta(deltas, at, delta) ==
    IF \E k \in 1..Len(deltas) : deltas[k].at = at
    THEN [k \in 1..Len(deltas) |->
            IF deltas[k].at = at THEN [at |-> at, delta |-> delta] ELSE deltas[k]]
    ELSE Append(deltas, [at |-> at, delta |-> delta])

RECURSIVE addDeltas(_, _, _, _, _, _)
addDeltas(items, axes, bias, neutral, i, deltas) ==
    IF i > Len(items) THEN deltas
    ELSE addDeltas(items, axes, bias, neutral, i + 1,
            IF axisPosition(axes, items[i][1]) = bias THEN deltas
            ELSE addDelta(deltas, RSub(axisPosition(axes, items[i][1]), bias),
                          VSub(items[i][2], neutral)))

\* buildMutator(items, axes, bias) with a bias given: the neutral is the
\* first item at the bias, every other item becomes a delta.  It fails when
\* no item is at the bias.
buildMutatorAt(items, axes, bias, neutrals) ==
    IF neutrals = {} THEN Raised
    ELSE Returned([kind |-> "mutator", axes |-> axes, bias |-> bias,
                   neutral |-> items[FirstIndex(neutrals)[1]][2],
                   deltas |-> addDeltas(items, axes, bias,
                                        items[FirstIndex(neutrals)[1]][2],
                                        1, << >>)])

buildMutator(items, axes, bias) ==
    buildMutatorAt(items, axes, axisPosition(axes, bias[1]),
        {i \in 1..Len(items) :
            axisPosition(axes, items[i][1]) = axisPosition(axes, bias[1])})

\* Mutator.getFactors at the position f: one factor per delta
mutatorFactors(self, f) ==
    [i \in 1..Len(self.deltas) |->
        _calcOnAxisFactor(f, self.deltas[i].at, Positions(self.deltas))]

RECURSIVE sumDeltas(_, _, _, _)
sumDeltas(self, f, i, total) ==
    IF i > Len(self.deltas) THEN total
    ELSE sumDeltas(self, f, i + 1,
            VAdd(total, VScale(_calcOnAxisFactor(f, self.deltas[i].at,
                                                 Positions(self.deltas)),
                               self.deltas[i].delta)))

\* Mutator.makeInstance(location): the deltas at location - bias, plus the
\* neutral.  The delta at the origin is neutral - neutral, with factor 1.
mutatorMakeInstance(self, location) ==
    VAdd(sumDeltas(self, RSub(axisPosition(self.axes, location), self.bias), 1,
                   VSub(self.neutral, self.neutral)),
         self.neutral)

\* Mutator.get(key), the get of dict: the key is the tuple of a location
\* relative to the bias, () for the neutral; the entry is (delta, name).
mutatorGet(self, key) ==
    IF key = << >> THEN Some(VSub(self.neutral, self.neutral))
    ELSE IF \E i \in 1..Len(self.deltas) :
                self.deltas[i].at = axisPosition(self.axes, key)
    THEN Some(self.deltas[CHOOSE i \in 1..Len(self.deltas) :
                self.deltas[i].at = axisPosition(self.axes, key)].delta)
    ELSE None

\* glyphMutator.get(()): the key () is the neutral of a Mutator; it is equal
\* to none of the locations, which are dicts, of a VariationModel.
modelGetNeutral(model) ==
    IF model.kind = "varlib" THEN None ELSE mutatorGet(model, << >>)

\* Two items at one location
Duplicates(items) ==
    \E i, j \in 1..Len(items) : i < j /\ items[i][1] = items[j][1]

\* getVariationModel(items, axes, bias): the constructor runs inside a try
\* whose except clause appends to problems and falls off the end of the
\* function, which returns None.  strict says whether the library at hand
\* rejects duplicate locations.
constructVariationModel(self, items, strict) ==
    IF strict /\ Duplicates(items) THEN Raised
    ELSE IF self.useVarlib THEN VariationModelMutator(items, self.axes)
    ELSE buildMutator(items, self.axes, self.defaultLoc)

getVariationModelFrom(self, built) ==
    IF built.raised
    THEN [raised |-> FALSE, value |-> None,
          problems |-> Append(self.problems, "getVariationModel error")]
    ELSE [raised |-> FALSE, value |-> Some(built.value),
          problems |-> self.problems]

getVariationModel(self, items, strict) ==
    getVariationModelFrom(self, constructVariationModel(self, items, strict))

(***************************************************************************)
(* Building and querying variation models: a processor whose document was  *)
(* read from a file with one axis, weight, and the masters handed to       *)
(* getVariationModel at places on that axis.                               *)
(***************************************************************************)
MasterPlaces == {0, 500, 1000}
MasterWidths == {0, 1}
QueryPlaces == {0, 250, 500, 1000, 1500, 2000}
AxisDefaults == {0, 500}

At(place) == [weight |-> Num(place)]

\* One master: its location and its glyph, which carries the number of the
\* master as its unicode.
MasterItem(place, width, k) == <<At(place), Glyph(Num(width), <<200 + k>>)>>

MasterItems ==
    UNION {[1..n -> MasterPlaces \X MasterWidths] : n \in 0..MaxMasters}

ItemsOf(choice) ==
    [k \in 1..Len(choice) |-> MasterItem(choice[k][1], choice[k][2], k)]

AxisOnlyFile(df) == Root(<<WeightAxisElement(df)>>, << >>, << >>, << >>)

\* getVariationModel(items, ...) called on the processor; out keeps the
\* model for the queries that follow.
GetVariationModel(items, strict) ==
    /\ Len(proc.problems) < MaxProblems
    /\ \E r \in {getVariationModel(Self(doc, proc), items, strict)} :
            /\ ret' = [raised |-> r.raised, value |-> r.value]
            /\ out' = r.value
            /\ proc' = [proc EXCEPT !.problems = r.problems]
    /\ inp' = [fn |-> "getVariationModel", items |-> items, strict |-> strict,
               location |-> None]
    /\ op' = "getVariationModel"
    /\ UNCHANGED <<py2, doc, doc2, file, hist>>

\* model.get(key) of a VariationModelMutator, key a location
ModelGet(key) ==
    /\ out # None
    /\ out[1].kind = "varlib"
    /\ ret' = Returned(varlibGet(out[1], key))
    /\ inp' = [inp EXCEPT !.fn = "get", !.location = key]
    /\ op' = "get"
    /\ UNCHANGED <<py2, out, doc, doc2, file, proc, hist>>

\* model.get(()) of either kind of model
ModelGetNeutral ==
    /\ out # None
    /\ ret' = Returned(modelGetNeutral(out[1]))
    /\ inp' = [inp EXCEPT !.fn = "get", !.location = None]
    /\ op' = "getNeutral"
    /\ UNCHANGED <<py2, out, doc, doc2, file, proc, hist>>

\* model.getFactors(location)
ModelGetFactors(location) ==
    /\ out # None
    /\ ret' = Returned(IF out[1].kind = "varlib"
                       THEN varlibGetFactors(out[1], location)
                       ELSE mutatorFactors(out[1],
                                axisPosition(out[1].axes, location)))
    /\ inp' = [inp EXCEPT !.fn = "getFactors", !.location = location]
    /\ op' = "getFactors"
    /\ UNCHANGED <<py2, out, doc, doc2, file, proc, hist>>

\* model.makeInstance(location)
ModelMakeInstance(location) ==
    /\ out # None
    /\ ret' = Returned(IF out[1].kind = "varlib"
                       THEN varlibMakeInstance(out[1], location)
                       ELSE mutatorMakeInstance(out[1], location))
    /\ inp' = [inp EXCEPT !.fn = "makeInstance", !.location = location]
    /\ op' = "makeInstance"
    /\ UNCHANGED <<py2, out, doc, doc2, file, proc, hist>>

InitMutator ==
    /\ op = "init"
    /\ py2 = FALSE
    /\ inp = [fn |-> "none", items |-> << >>, strict |-> FALSE, location |-> None]
    /\ out = None
    /\ \E df \in AxisDefaults : doc = read(NewDocument, InputPath, AxisOnlyFile(df)).value
    /\ doc2 = NewDocument /\ file = None
    /\ \E useVarlib \in BOOLEAN : proc = NewGenerator(3, useVarlib)
    /\ ret = Returned(None)
    /\ hist = None

NextMutator ==
    \/ \E choice \in MasterItems, strict \in BOOLEAN :
            GetVariationModel(ItemsOf(choice), strict)
    \/ \E place \in MasterPlaces : ModelGet(At(place))
    \/ ModelGetNeutral
    \/ \E place \in QueryPlaces : ModelGetFactors(At(place))
    \/ \E place \in QueryPlaces : ModelMakeInstance(At(place))

SpecMutator == InitMutator /\ [][NextMutator]_vars

(***************************************************************************)
(* swapGlyphNames.  A font is [glyphs, kerning, groups]: glyphs maps a     *)
(* glyph name to [outline, width, components, unicodes], components being  *)
(* the base glyph names of the glyph's components; kerning maps a pair of  *)
(* names to a value; groups maps a group name to its members.              *)
(***************************************************************************)
FontGlyph(o, w, c, u) == [outline |-> o, width |-> w, components |-> c, unicodes |-> u]

NoOutline == "empty"

\* oldName + swapNameExtension
swapNameOf(oldName) ==
    CASE oldName = "a" -> "a.swap"
      [] oldName = "b" -> "b.swap"
      [] oldName = "c" -> "c.swap"
      [] OTHER -> "a.swap.swap"

\* name.find(swapNameExtension) != -1
hasSwapExtension(name) == name \in {"a.swap", "b.swap", "c.swap", "a.swap.swap"}

\* glyph.clear(): contours and components go, width and unicodes stay
clearGlyph(glyphs, name) ==
    [glyphs EXCEPT ![name] = [@ EXCEPT !.outline = NoOutline, !.components = << >>]]

\* source.drawPoints(target.getPointPen()) and the width, target cleared
drawInto(cleared, target, source) ==
    [cleared EXCEPT ![target] =
        [@ EXCEPT !.outline = cleared[source].outline,
                  !.components = cleared[source].components,
                  !.width = cleared[source].width]]

copyOutline(glyphs, target, source) ==
    drawInto(clearGlyph(glyphs, target), target, source)

\* font.newGlyph(swapName) when the font has no such glyph
withSwapGlyph(glyphs, name) ==
    IF name \in DOMAIN glyphs THEN glyphs
    ELSE Put(glyphs, name, FontGlyph(NoOutline, Num(0), << >>, << >>))

\* a pass that renames nothing
remapComponentsSkipped(glyphs, from, to) == glyphs

\* one pass over the components of every glyph
remapComponents(glyphs, from, to) ==
    [n \in DOMAIN glyphs |->
        [glyphs[n] EXCEPT !.components =
            [k \in 1..Len(glyphs[n].components) |->
                IF glyphs[n].components[k] = from THEN to
                ELSE glyphs[n].components[k]]]]

\* the exchange without its elif branch
swapNameOneWay(name, oldName, newName) ==
    IF name = oldName THEN newName ELSE name

swapName(name, oldName, newName) ==
    IF name = oldName THEN newName
    ELSE IF name = newName THEN oldName
    ELSE name

\* newKerning: every key with the two names exchanged; keys that fall
\* together keep the value of one of them, in the order of the dict.
swapKerning(kerning, oldName, newName) ==
    [p \in {<<swapName(q[1], oldName, newName), swapName(q[2], oldName, newName)>> :
                q \in DOMAIN kerning} |->
        kerning[CHOOSE q \in DOMAIN kerning :
            p = <<swapName(q[1], oldName, newName), swapName(q[2], oldName, newName)>>]]

swapGroups(groups, oldName, newName) ==
    [g \in DOMAIN groups |->
        [k \in 1..Len(groups[g]) |-> swapName(groups[g][k], oldName, newName)]]

removeSwapGlyphs(glyphs) ==
    [n \in {m \in DOMAIN glyphs : ~hasSwapExtension(m)} |-> glyphs[n]]

\* The outlines go old -> swap, new -> old, swap -> new; the components are
\* renamed in three passes the same way round.
swappedGlyphs(glyphs, oldName, newName, parked) ==
    removeSwapGlyphs(
        remapComponents(
            remapComponents(
                remapComponents(
                    copyOutline(
                        copyOutline(
                            copyOutline(withSwapGlyph(glyphs, parked), parked, oldName),
                            oldName, newName),
                        newName, parked),
                    oldName, parked),
                newName, oldName),
            parked, newName))

\* swapGlyphNames(font, oldName, newName): nothing when either is missing
swapGlyphNames(font, oldName, newName) ==
    IF oldName \notin DOMAIN font.glyphs \/ newName \notin DOMAIN font.glyphs
    THEN font
    ELSE [glyphs |-> swappedGlyphs(font.glyphs, oldName, newName, swapNameOf(oldName)),
          kerning |-> swapKerning(font.kerning, oldName, newName),
          groups |-> swapGroups(font.groups, oldName, newName)]

(***************************************************************************)
(* Inputs of swapGlyphNames: fonts with the glyphs a and b, with or        *)
(* without c, a composite of them, and a glyph left over under a swap      *)
(* name; kerning among a, b and c.                                         *)
(***************************************************************************)
SwapComponents == {<< >>, <<"a">>, <<"b">>, <<"a", "b">>, <<"c">>}

SwapGlyphSets ==
    { [a |-> FontGlyph("A", Num(100), << >>, <<97>>),
       b |-> FontGlyph("B", Num(800), cb, <<98>>)] @@ rest :
        cb \in {<< >>, <<"a">>},
        rest \in {<< >>}
            \cup {[c |-> FontGlyph("C", Num(300), cc, <<99>>)] : cc \in SwapComponents}
            \cup {("a.swap" :> FontGlyph("S", Num(50), cc, << >>)) : cc \in {<< >>, <<"a">>}} }

SwapKernings ==
    { << >>,
      (<<"a", "a">> :> -10) @@ (<<"b", "b">> :> 10),
      (<<"a", "b">> :> 5) @@ (<<"b", "c">> :> 7) @@ (<<"c", "c">> :> 1),
      (<<"a", "c">> :> 3) @@ (<<"b", "a">> :> 4) }

SwapFonts ==
    [glyphs : SwapGlyphSets, kerning : SwapKernings,
     groups : {[caps |-> <<"a", "b", "c">>]}]

InitSwap ==
    /\ op = "init"
    /\ py2 = FALSE
    /\ inp \in [fn : {"swapGlyphNames"}, font : SwapFonts,
                oldName : {"a", "b", "c", "a.swap"}, newName : {"a", "b", "c"}]
    /\ out = NoOutput
    /\ NoObjects

CallSwapGlyphNames ==
    /\ op = "init"
    /\ inp.fn = "swapGlyphNames"
    /\ out' = swapGlyphNames(inp.font, inp.oldName, inp.newName)
    /\ op' = "swapGlyphNames"
    /\ UNCHANGED <<py2, inp>>
    /\ UNCHANGED objVars

\* swapGlyphNames(font, oldName, newName) once more, on the font it left
CallSwapBack ==
    /\ op = "swapGlyphNames"
    /\ out' = swapGlyphNames(out, inp.oldName, inp.newName)
    /\ op' = "swapBack"
    /\ UNCHANGED <<py2, inp>>
    /\ UNCHANGED objVars

NextSwap ==
    \/ CallSwapGlyphNames
    \/ CallSwapBack

SpecSwap == InitSwap /\ [][NextSwap]_vars

(***************************************************************************)
(* Generating instances.  The disk maps the path of a UFO to None or to    *)
(* [formatVersion, font].  A font is [glyphs, kerning, groups, info,       *)
(* copied]: glyphs, kerning and groups as swapGlyphNames takes them, info  *)
(* one number of the font info (None in a new font), copied the names of   *)
(* the sources whose info was copied into the font.  MathKerning is taken  *)
(* at the pair (a, b), MathInfo at the one number.                         *)
(***************************************************************************)
UFO(formatVersion, font) == [formatVersion |-> formatVersion, font |-> font]

\* self._instantiateFont(None)
NewFont ==
    [glyphs |-> << >>, kerning |-> << >>, groups |-> << >>, info |-> None,
     copied |-> << >>]

\* The attributes DesignSpaceProcessor adds to the document
ProcessorOf(self) == [k \in DOMAIN NewGenerator(3, FALSE) |-> self[k]]

\* loadFonts: the loop over the sources.  A name already in self.fonts is
\* passed over; names gathers the glyph names of the fonts loaded now.
RECURSIVE loadSources(_, _, _, _)
loadSources(self, disk, i, names) ==
    IF i > Len(self.sources) THEN [self |-> self, names |-> names]
    ELSE IF self.sources[i].name \in DOMAIN self.fonts
    THEN loadSources(self, disk, i + 1, names)
    ELSE IF disk[self.sources[i].path] # None
    THEN loadSources(
            [self EXCEPT
                !.fonts = Put(@, self.sources[i].name,
                              Some(disk[self.sources[i].path].font)),
                !.problems = Append(@, "loaded master")],
            disk, i + 1,
            names \cup DOMAIN disk[self.sources[i].path].font.glyphs)
    ELSE loadSources(
            [self EXCEPT
                !.fonts = Put(@, self.sources[i].name, None),
                !.problems = Append(@, "can't load master")],
            disk, i + 1, names)

\* self.glyphNames = list(names): the names in the order the set gives them
loadedFonts(loaded, order) ==
    [loaded.self EXCEPT
        !.glyphNames = SelectSeq(order, LAMBDA n : n \in loaded.names),
        !.fontsLoaded = TRUE]

loadFonts(self, disk, reload, order) ==
    IF self.fontsLoaded /\ ~reload THEN self
    ELSE loadedFonts(loadSources(self, disk, 1, {}), order)

\* collectMastersForGlyph as getGlyphMutator uses it: the items (location,
\* glyph) of the sources that have the glyph and do not mute it.  A source
\* whose name is not in self.fonts (KeyError) or whose font is None
\* (TypeError at "glyphName in f") raises.
RECURSIVE collectGlyphMasters(_, _, _, _)
collectGlyphMasters(self, glyphName, i, items) ==
    IF i > Len(self.sources) THEN Returned(items)
    ELSE IF self.sources[i].name \notin DOMAIN self.fonts THEN Raised
    ELSE IF \E k \in 1..Len(self.sources[i].mutedGlyphNames) :
                self.sources[i].mutedGlyphNames[k] = glyphName
    THEN collectGlyphMasters(self, glyphName, i + 1, items)
    ELSE IF self.fonts[self.sources[i].name] = None THEN Raised
    ELSE IF glyphName \notin DOMAIN self.fonts[self.sources[i].name][1].glyphs
    THEN collectGlyphMasters(self, glyphName, i + 1, items)
    ELSE collectGlyphMasters(self, glyphName, i + 1,
            Append(items, <<self.sources[i].location[1],
                            self.fonts[self.sources[i].name][1].glyphs[glyphName]>>))

\* "bias, thing = self.getVariationModel(...)": None cannot be unpacked.
\* The answer is [raised, value, self], self with the problems of the call.
unpackModel(self, gv) ==
    [raised |-> gv.value = None,
     value |-> gv.value,
     self |-> [self EXCEPT !.problems = gv.problems]]

\* getGlyphMutator(glyphName) with its cache: [raised, value, self]
storeGlyphMutator(glyphName, u) ==
    IF u.raised THEN u
    ELSE [u EXCEPT !.self.glyphMutators = Put(@, cacheKey(glyphName, FALSE), u.value[1])]

buildGlyphMutator(self, glyphName, items) ==
    IF items.raised THEN [raised |-> TRUE, value |-> None, self |-> self]
    ELSE storeGlyphMutator(glyphName,
            unpackModel(self, getVariationModel(self, items.value, TRUE)))

getGlyphMutator(self, glyphName) ==
    IF cacheKey(glyphName, FALSE) \in DOMAIN self.glyphMutators
    THEN [raised |-> FALSE,
          value |-> Some(self.glyphMutators[cacheKey(glyphName, FALSE)]),
          self |-> self]
    ELSE buildGlyphMutator(self, glyphName,
                           collectGlyphMasters(self, glyphName, 1, << >>))

\* MathKerning(font.kerning, font.groups) and MathInfo(font) as values of a
\* model: the number they interpolate is in width.
KernedPair == <<"a", "b">>

fontValue(font, part) ==
    IF part = "kerning"
    THEN [width |-> IF KernedPair \in DOMAIN font.kerning
                    THEN font.kerning[KernedPair] ELSE Num(0),
          groups |-> font.groups]
    ELSE [width |-> font.info[1]]

\* getKerningMutator and getInfoMutator: the cached model when there is one,
\* else the model over what every source font gives for the attribute.
RECURSIVE collectFontMasters(_, _, _, _)
collectFontMasters(self, part, i, items) ==
    IF i > Len(self.sources) THEN Returned(items)
    ELSE IF self.sources[i].name \notin DOMAIN self.fonts THEN Raised
    ELSE IF self.fonts[self.sources[i].name] = None THEN Raised
    ELSE collectFontMasters(self, part, i + 1,
            Append(items, <<self.sources[i].location[1],
                            fontValue(self.fonts[self.sources[i].name][1], part)>>))

storeFontMutator(attribute, u) ==
    IF u.raised THEN u
    ELSE [u EXCEPT !.self = [@ EXCEPT ![attribute] = u.value]]

buildFontMutator(self, attribute, items) ==
    IF items.raised THEN [raised |-> TRUE, value |-> None, self |-> self]
    ELSE storeFontMutator(attribute,
            unpackModel(self, getVariationModel(self, items.value, TRUE)))

getFontMutator(self, attribute, part) ==
    IF self[attribute] # None
    THEN [raised |-> FALSE, value |-> self[attribute], self |-> self]
    ELSE buildFontMutator(self, attribute, collectFontMasters(self, part, 1, << >>))

getKerningMutator(self) == getFontMutator(self, "kerningMutator", "kerning")
getInfoMutator(self) == getFontMutator(self, "infoMutator", "info")

\* model.makeInstance(location) of either kind of model
modelMakeInstance(model, location) ==
    IF model.kind = "varlib" THEN varlibMakeInstance(model, location)
    ELSE mutatorMakeInstance(model, location)

\* makeInstance, the kerning: [self, font].  Whatever is raised inside the
\* try becomes an entry in problems.
kerningMade(self, inst, font, u) ==
    IF u.raised
    THEN [self |-> [u.self EXCEPT !.problems = Append(@, "Could not make kerning")],
          font |-> font]
    ELSE [self |-> u.self,
          font |-> [font EXCEPT
                      !.kerning = (KernedPair :>
                          modelMakeInstance(u.value[1], inst.location[1]).width),
                      !.groups = modelMakeInstance(u.value[1], inst.location[1]).groups]]

makeKerning(self, inst, font) ==
    IF ~inst.kerning THEN [self |-> self, font |-> font]
    ELSE kerningMade(self, inst, font, getKerningMutator(self))

\* the info
infoMade(inst, font, u) ==
    IF u.raised
    THEN [self |-> [u.self EXCEPT !.problems = Append(@, "Could not make fontinfo")],
          font |-> font]
    ELSE [self |-> u.self,
          font |-> [font EXCEPT
                      !.info = Some(modelMakeInstance(u.value[1], inst.location[1]).width)]]

makeInfo(inst, s) ==
    IF ~inst.info THEN s
    ELSE infoMade(inst, s.font, getInfoMutator(s.self))

\* The loop "copied info" over the sources, outside every try: a source
\* flagged copyInfo whose font is None raises AttributeError.  (copyLib and
\* copyFeatures are not set by any source here.)
RECURSIVE copyInfos(_, _, _)
copyInfos(self, font, i) ==
    IF i > Len(self.sources) THEN Returned(font)
    ELSE IF ~self.sources[i].copyInfo THEN copyInfos(self, font, i + 1)
    ELSE IF self.sources[i].name \notin DOMAIN self.fonts THEN Raised
    ELSE IF self.fonts[self.sources[i].name] = None THEN Raised
    ELSE copyInfos(self,
                   [font EXCEPT !.copied = Append(@, self.sources[i].name)], i + 1)

\* instanceDescriptor.glyphs[glyphName], {} when the instance has none
NoGlyphData == [mute |-> FALSE, instanceLocation |-> None, masters |-> None]

glyphDataOf(inst, glyphName) ==
    IF \E k \in 1..Len(inst.glyphs) : inst.glyphs[k].name = glyphName
    THEN inst.glyphs[CHOOSE k \in 1..Len(inst.glyphs) : inst.glyphs[k].name = glyphName]
    ELSE NoGlyphData

\* glyphData.get("unicodes", uniValues), uniValues being the unicodes of
\* the neutral when glyphMutator.get(()) finds one, else []
glyphUnicodes(data, neutral) ==
    IF "unicodes" \in DOMAIN data THEN data.unicodes
    ELSE IF neutral = None THEN << >>
    ELSE neutral[1].unicodes

\* Location(glyphData.get("instanceLocation", instanceDescriptor.location))
glyphLocation(inst, data) ==
    IF data.instanceLocation # None THEN data.instanceLocation[1]
    ELSE inst.location[1]

\* The masters listed for the glyph: self.fonts.get(name) is None for an
\* unknown name as for a font that was not loaded, and "in None" raises.
RECURSIVE collectDataMasters(_, _, _, _)
collectDataMasters(self, masters, i, items) ==
    IF i > Len(masters) THEN Returned(items)
    ELSE IF masters[i].font \notin DOMAIN self.fonts THEN Raised
    ELSE IF self.fonts[masters[i].font] = None THEN Raised
    ELSE IF masters[i].glyphName \notin DOMAIN self.fonts[masters[i].font][1].glyphs
    THEN collectDataMasters(self, masters, i + 1, items)
    ELSE collectDataMasters(self, masters, i + 1,
            Append(items, <<masters[i].location[1],
                            self.fonts[masters[i].font][1].glyphs[masters[i].glyphName]>>))

\* font.newGlyph(glyphName); font[glyphName].clear()
EmptyGlyph == FontGlyph(NoOutline, Num(0), << >>, << >>)

\* The loop over the glyph names: [raised, self, font]
RECURSIVE makeGlyphs(_, _, _, _)

\* extractGlyph(font[glyphName], onlyGeometry=True), the width, the unicodes
glyphInstance(self, inst, font, k, data, unicodes, model) ==
    makeGlyphs(self, inst,
        [font EXCEPT !.glyphs =
            Put(@, self.glyphNames[k],
                [modelMakeInstance(model, glyphLocation(inst, data))
                    EXCEPT !.unicodes = unicodes])],
        k + 1)

glyphWithModel(inst, font, k, data, unicodes, u) ==
    IF u.raised THEN [raised |-> TRUE, self |-> u.self, font |-> font]
    ELSE glyphInstance(u.self, inst, font, k, data, unicodes, u.value[1])

glyphWithMasters(self, inst, font, k, data, unicodes, items) ==
    IF items.raised THEN [raised |-> TRUE, self |-> self, font |-> font]
    ELSE glyphWithModel(inst, font, k, data, unicodes,
            unpackModel(self, getVariationModel(self, items.value, TRUE)))

glyphWithData(self, inst, font, k, data, model) ==
    IF data.mute THEN makeGlyphs(self, inst, font, k + 1)
    ELSE IF data.masters # None /\ data.masters[1] # << >>
    THEN glyphWithMasters(self, inst, font, k, data,
            glyphUnicodes(data, modelGetNeutral(model)),
            collectDataMasters(self, data.masters[1], 1, << >>))
    ELSE glyphInstance(self, inst, font, k, data,
            glyphUnicodes(data, modelGetNeutral(model)), model)

glyphWithMutator(inst, font, k, gm) ==
    IF gm.raised
    THEN makeGlyphs([gm.self EXCEPT
                        !.problems = Append(@, "Could not make mutator for glyph")],
                    inst, font, k + 1)
    ELSE glyphWithData(gm.self, inst,
            [font EXCEPT !.glyphs = Put(@, gm.self.glyphNames[k], EmptyGlyph)],
            k, glyphDataOf(inst, gm.self.glyphNames[k]), gm.value[1])

makeGlyphs(self, inst, font, k) ==
    IF k > Len(self.glyphNames) THEN [raised |-> FALSE, self |-> self, font |-> font]
    ELSE glyphWithMutator(inst, font, k, getGlyphMutator(self, self.glyphNames[k]))

\* for oldName, newName in zip(self.glyphNames, resultNames)
swapFont(font, oldName, newName) ==
    swapGlyphNames(font, oldName, newName) @@ [info |-> font.info, copied |-> font.copied]

RECURSIVE swapResultNames(_, _, _, _)
swapResultNames(font, glyphNames, resultNames, k) ==
    IF k > Len(glyphNames) THEN font
    ELSE swapResultNames(
            IF glyphNames[k] # resultNames[k]
            THEN swapFont(font, glyphNames[k], resultNames[k]) ELSE font,
            glyphNames, resultNames, k + 1)

\* makeInstance(instanceDescriptor, doRules): [raised, value, self], value the
\* font.  self.default is None when findDefault found no source, and
\* self.fonts has no entry before loadFonts.
instanceAfterRules(g, resultNames) ==
    IF resultNames.raised THEN [raised |-> TRUE, value |-> None, self |-> g.self]
    ELSE [raised |-> FALSE,
          value |-> Some(swapResultNames(g.font, g.self.glyphNames,
                                         resultNames.value, 1)),
          self |-> g.self]

instanceAfterGlyphs(inst, doRules, g) ==
    IF g.raised THEN [raised |-> TRUE, value |-> None, self |-> g.self]
    ELSE IF ~doRules THEN [raised |-> FALSE, value |-> Some(g.font), self |-> g.self]
    ELSE instanceAfterRules(g,
            processRules(g.self.rules, inst.location[1], g.self.glyphNames))

instanceAfterCopy(self, inst, doRules, c) ==
    IF c.raised THEN [raised |-> TRUE, value |-> None, self |-> self]
    ELSE instanceAfterGlyphs(inst, doRules, makeGlyphs(self, inst, c.value, 1))

instanceAfterInfo(inst, doRules, s) ==
    instanceAfterCopy(s.self, inst, doRules, copyInfos(s.self, s.font, 1))

makeInstance(self, inst, doRules) ==
    IF self.default = None THEN [raised |-> TRUE, value |-> None, self |-> self]
    ELSE IF self.sources[self.default[1]].name \notin DOMAIN self.fonts
    THEN [raised |-> TRUE, value |-> None, self |-> self]
    ELSE instanceAfterInfo(inst, doRules,
            makeInfo(inst, makeKerning(self, inst, NewFont)))

\* generateUFO(processRules=doRules): loadFonts(), then self.checkDefault(), which
\* neither DesignSpaceProcessor nor DesignSpaceDocument defines: the
\* AttributeError leaves the method before the loop over the instances, so
\* no instance is made and nothing is saved.  [raised, self, disk]
generateUFO(self, disk, doRules, order) ==
    [raised |-> TRUE, self |-> loadFonts(self, disk, FALSE, order), disk |-> disk]

(***************************************************************************)
(* A processor at work: the document is read from a file with the axis     *)
(* weight, a rule for weight in [250, 750] that substitutes b for a (and,  *)
(* in one variant, a for b as well), a light source at 0                   *)
(* and a bold source at 1000 (flagged copyInfo), and is given two          *)
(* instances, medium at 500 and black at 1000.  On disk the light UFO is   *)
(* there, the bold UFO is there or missing, and there may be a UFO where   *)
(* the medium instance is to go.  hist counts the calls.                   *)
(***************************************************************************)
BlackPath == <<"proj", "instances", "black.ufo">>
UfoPaths == {LightPath, BoldPath, MediumPath, BlackPath}

LightFont ==
    [glyphs |-> [a |-> FontGlyph("A", Num(100), << >>, <<65>>),
                 b |-> FontGlyph("B", Num(300), <<"a">>, <<66>>)],
     kerning |-> (KernedPair :> Num(-10)),
     groups |-> [caps |-> <<"a", "b">>],
     info |-> Some(Num(400)), copied |-> << >>]

BoldFont ==
    [glyphs |-> [a |-> FontGlyph("A", Num(200), << >>, <<65, 97>>),
                 b |-> FontGlyph("B", Num(500), <<"a">>, <<66>>)],
     kerning |-> (KernedPair :> Num(-30)),
     groups |-> [caps |-> <<"a", "b">>],
     info |-> Some(Num(700)), copied |-> << >>]

UfoVersions == {2, 3}
GenDefaults == {0, 500, 1000}
GlyphOrders == { <<"a", "b">>, <<"b", "a">> }

\* What the medium instance says of the glyph a: nothing, its unicodes,
\* that it is muted, or its own masters (light's b and bold's a)
GenGlyphData ==
    { << >>,
      << GlyphData("a", FALSE, None, None) @@ [unicodes |-> <<291, 292>>] >>,
      << GlyphData("a", TRUE, None, None) >>,
      << GlyphData("a", FALSE, Some(At(250)),
                   Some(<< Master("master.light", "b", Some(At(0))),
                           Master("master.bold", "a", Some(At(1000))) >>)) >> }

GenInstances(data) ==
    << Instance(None, MediumPath, "instance.medium", Some(At(500)), data),
       Instance(None, BlackPath, "instance.black", Some(At(1000)), << >>) >>

\* The substitutions of the rule: a by b, or a by b and b by a
GenSubs == { << <<"a", "b">> >>, << <<"a", "b">>, <<"b", "a">> >> }

GenDocumentWith(df, data, subs) ==
    [read(NewDocument, InputPath, WeightFile(df, << >>)).value
        EXCEPT !.instances = GenInstances(data),
               !.rules = <<[@[1] EXCEPT !.subs = subs]>>]

GenDocument(df, data) == GenDocumentWith(df, data, << <<"a", "b">> >>)

GenDisks ==
    { (LightPath :> UFO(2, LightFont)) @@ (BoldPath :> bold)
        @@ (MediumPath :> medium) @@ (BlackPath :> None) :
        bold \in {None, UFO(3, BoldFont)},
        medium \in {None} \cup {UFO(v, NewFont) : v \in UfoVersions} }

InitGenerate ==
    /\ op = "init"
    /\ py2 = FALSE
    /\ inp = [fn |-> "none", instance |-> 0, doRules |-> FALSE]
    /\ out = None
    /\ \E df \in GenDefaults, data \in GenGlyphData, subs \in GenSubs :
            doc = GenDocumentWith(df, data, subs)
    /\ doc2 = NewDocument
    /\ file \in GenDisks
    /\ \E v \in UfoVersions, useVarlib \in BOOLEAN : proc = NewGenerator(v, useVarlib)
    /\ ret = Returned(None)
    /\ hist = [ncalls |-> 0]

\* processor.loadFonts(reload)
CallLoadFonts(reload, order) ==
    /\ proc' = ProcessorOf(loadFonts(Self(doc, proc), file, reload, order))
    /\ ret' = Returned(None)
    /\ inp' = [fn |-> "loadFonts", instance |-> 0, doRules |-> FALSE]
    /\ op' = "loadFonts"
    /\ UNCHANGED out

\* font = processor.makeInstance(processor.instances[i], doRules)
CallMakeInstance(i, doRules) ==
    /\ \E r \in {makeInstance(Self(doc, proc), doc.instances[i], doRules)} :
            /\ proc' = ProcessorOf(r.self)
            /\ ret' = [raised |-> r.raised, value |-> None]
            /\ out' = r.value
    /\ inp' = [fn |-> "makeInstance", instance |-> i, doRules |-> doRules]
    /\ op' = "makeInstance"

\* processor.generateUFO(processRules)
CallGenerateUFO(doRules, order) ==
    /\ \E r \in {generateUFO(Self(doc, proc), file, doRules, order)} :
            /\ proc' = ProcessorOf(r.self)
            /\ ret' = [raised |-> r.raised, value |-> None]
    /\ inp' = [fn |-> "generateUFO", instance |-> 0, doRules |-> doRules]
    /\ op' = "generateUFO"
    /\ UNCHANGED out

GenerateCall ==
    \/ \E reload \in BOOLEAN, order \in GlyphOrders : CallLoadFonts(reload, order)
    \/ \E i \in 1..Len(doc.instances), doRules \in BOOLEAN : CallMakeInstance(i, doRules)
    \/ \E doRules \in BOOLEAN, order \in GlyphOrders :
            CallGenerateUFO(doRules, order)

NextGenerate ==
    /\ hist.ncalls < MaxCalls
    /\ ~ret.raised
    /\ GenerateCall
    /\ hist' = [ncalls |-> hist.ncalls + 1]
    /\ UNCHANGED <<py2, doc, doc2, file>>

SpecGenerate == InitGenerate /\ [][NextGenerate]_vars

(***************************************************************************)
(* Two calls of getGlyphMutator, for the glyphs a and b, whose steps       *)
(* interleave: the cache lookup, the collecting of the masters, the        *)
(* building of the model, the store into the cache.  The processor has its *)
(* fonts loaded; the cache is empty or holds the model of a already.       *)
(* hist keeps the processor as it was at the start and, of each call, the  *)
(* step it is at with its local variables.                                 *)
(***************************************************************************)
CallGlyphs == <<"a", "b">>

NewCall == [pc |-> "lookup", items |-> << >>, thing |-> None]

\* cacheKey in self._glyphMutators: the cached model, or on to the build
lookupStep(self, glyphName, call) ==
    IF cacheKey(glyphName, FALSE) \in DOMAIN self.glyphMutators
    THEN [call EXCEPT !.pc = "done",
                      !.thing = Some(self.glyphMutators[cacheKey(glyphName, FALSE)])]
    ELSE [call EXCEPT !.pc = "collect"]

\* items = self.collectMastersForGlyph(glyphName, ...)
collectStep(call, items) ==
    IF items.raised THEN [call EXCEPT !.pc = "raised"]
    ELSE [call EXCEPT !.pc = "build", !.items = items.value]

\* bias, thing = self.getVariationModel(items, ...)
buildStep(call, gv) ==
    IF gv.value = None THEN [call EXCEPT !.pc = "raised"]
    ELSE [call EXCEPT !.pc = "store", !.thing = gv.value]

\* a store that leaves nothing else in the cache
storeStepAlone(cache, glyphName, thing) == (cacheKey(glyphName, FALSE) :> thing)

\* self._glyphMutators[cacheKey] = thing
storeStep(cache, glyphName, thing) == Put(cache, cacheKey(glyphName, FALSE), thing)

StepLookup(t) ==
    /\ hist.calls[t].pc = "lookup"
    /\ hist' = [hist EXCEPT !.calls[t] = lookupStep(Self(doc, proc), CallGlyphs[t], @)]
    /\ op' = "lookup"
    /\ UNCHANGED proc

StepCollect(t) ==
    /\ hist.calls[t].pc = "collect"
    /\ hist' = [hist EXCEPT !.calls[t] =
                    collectStep(@, collectGlyphMasters(Self(doc, proc), CallGlyphs[t],
                                                       1, << >>))]
    /\ op' = "collect"
    /\ UNCHANGED proc

StepBuild(t) ==
    /\ hist.calls[t].pc = "build"
    /\ \E gv \in {getVariationModel(Self(doc, proc), hist.calls[t].items, TRUE)} :
            /\ hist' = [hist EXCEPT !.calls[t] = buildStep(@, gv)]
            /\ proc' = [proc EXCEPT !.problems = gv.problems]
    /\ op' = "build"

StepStore(t) ==
    /\ hist.calls[t].pc = "store"
    /\ proc' = [proc EXCEPT !.glyphMutators =
                    storeStep(@, CallGlyphs[t], hist.calls[t].thing[1])]
    /\ hist' = [hist EXCEPT !.calls[t].pc = "done"]
    /\ op' = "store"

\* The processor with its fonts loaded, after getGlyphMutator("a") or not
LoadedProcessor(df, disk, useVarlib, order) ==
    loadFonts(Self(GenDocument(df, << >>), NewGenerator(3, useVarlib)), disk, FALSE, order)

InitInterleave ==
    /\ op = "init"
    /\ py2 = FALSE /\ inp = NoInput /\ out = NoOutput
    /\ doc2 = NewDocument
    /\ file \in GenDisks
    /\ ret = Returned(None)
    /\ \E df \in GenDefaults, useVarlib \in BOOLEAN, order \in GlyphOrders,
          cached \in BOOLEAN :
            /\ doc = GenDocument(df, << >>)
            /\ proc = ProcessorOf(
                        IF cached
                        THEN getGlyphMutator(LoadedProcessor(df, file, useVarlib, order),
                                             "a").self
                        ELSE LoadedProcessor(df, file, useVarlib, order))
    /\ hist = [start |-> proc, calls |-> <<NewCall, NewCall>>]

NextInterleave ==
    /\ \E t \in 1..2 :
            \/ StepLookup(t)
            \/ StepCollect(t)
            \/ StepBuild(t)
            \/ StepStore(t)
    /\ UNCHANGED <<py2, inp, out, doc, doc2, file, ret>>

SpecInterleave == InitInterleave /\ [][NextInterleave]_vars

(***************************************************************************)
(* What the claims say a condition and a rule mean.                        *)
(***************************************************************************)
HasBound(cd) == cd.minimum # None \/ cd.maximum # None

Holds(cd, v) ==
    /\ cd.minimum = None \/ RLe(cd.minimum, v)
    /\ cd.maximum = None \/ RLe(v, cd.maximum)

AllHold(conditions, location) ==
    \A i \in 1..Len(conditions) : Holds(conditions[i], location[conditions[i].name])

Matches(rule, location) ==
    \E i \in 1..Len(rule.conditionSets) : AllHold(rule.conditionSets[i], location)

\* C1: processRules applies the matching rules in list order, each to the
\* output of the previous one: with A = (x -> y) and B = (y -> z) both
\* matching, [A, B] turns [x] into [z] and [B, A] turns [x] into [y].
C1_RuleOrderMatters ==
    (/\ op = "processRules"
     /\ Len(inp.rules) = 2
     /\ Len(inp.glyphNames) = 1
     /\ \A i \in 1..2 : /\ Matches(inp.rules[i], inp.location)
                        /\ Len(inp.rules[i].subs) = 1)
    => LET first == inp.rules[1].subs[1]
           second == inp.rules[2].subs[1]
           x == inp.glyphNames[1]
       IN  /\ (first[1] = x /\ second[1] = first[2])
                => out = [raised |-> FALSE, value |-> <<second[2]>>]
           /\ (second[1] = x /\ first[1] = second[2])
                => out = [raised |-> FALSE, value |-> <<second[2]>>]

C1_Witness ==
    /\ op = "processRules"
    /\ inp.location = [weight |-> Num(500)]
    /\ inp.rules = << Rule(<< <<Cond("weight", Num(250), Num(750))>> >>, << <<"a", "b">> >>),
                      Rule(<< <<Cond("weight", Num(250), Num(750))>> >>, << <<"b", "c">> >>) >>
    /\ inp.glyphNames = <<"a">>
    /\ out = [raised |-> FALSE, value |-> <<"c">>]

\* C2: one matching rule makes a single pass: each name becomes the target
\* of the first pair of subs whose source it is, a name no pair has passes
\* through, and a replacement is not matched again against the same subs; a
\* rule that does not match the location leaves every name as it was.
C2_SinglePass ==
    (op = "processRules" /\ Len(inp.rules) = 1)
    => LET subs == inp.rules[1].subs
           names == inp.glyphNames
           Sources(n) == {j \in 1..Len(subs) : subs[j][1] = n}
           FirstOf(n) == CHOOSE j \in Sources(n) : \A k \in Sources(n) : j <= k
           expected == [k \in 1..Len(names) |->
                           IF Sources(names[k]) = {} THEN names[k]
                           ELSE subs[FirstOf(names[k])][2]]
       IN  out = [raised |-> FALSE,
                  value |-> IF Matches(inp.rules[1], inp.location)
                            THEN expected ELSE names]

C2_Witness ==
    /\ op = "processRules"
    /\ inp.location = [weight |-> Num(500)]
    /\ inp.rules = << Rule(<< <<Cond("weight", Num(250), Num(750))>> >>,
                           << <<"a", "b">>, <<"b", "c">> >>) >>
    /\ inp.glyphNames = <<"a", "c">>
    /\ out = [raised |-> FALSE, value |-> <<"b", "c">>]

\* C3 asks of a location that gives a number for every axis the conditions name.
C3_Applies ==
    /\ op = "evaluateConditions"
    /\ \A i \in 1..Len(inp.conditions) :
          /\ inp.conditions[i].name \in DOMAIN inp.location
          /\ ~IsTuple(inp.location[inp.conditions[i].name])

C4_NormalizedValue ==
    (op = "normalizeLocation" /\ "weight" \in DOMAIN inp.location)
    => LET a == inp.self.axes[1]
           v0 == inp.location["weight"]
           v == IF IsTuple(v0) THEN <<v0[1], v0[2]>> ELSE v0
           r == out["weight"]
           below == RDiv(RSub(RMax(v, a.minimum), a.default), RSub(a.default, a.minimum))
           above == RDiv(RSub(RMin(v, a.maximum), a.default), RSub(a.maximum, a.default))
       IN  /\ "weight" \in DOMAIN out
           /\ v = a.default => r = Num(0)
           /\ RLt(v, a.default) => r = (IF a.default = a.minimum THEN Num(0) ELSE below)
           /\ RLt(a.default, v) => r = (IF a.default = a.maximum THEN Num(0) ELSE above)
           /\ v = a.minimum => r = (IF a.minimum = a.default THEN Num(0) ELSE Num(-1))
           /\ v = a.maximum => r = (IF a.maximum = a.default THEN Num(0) ELSE Num(1))
           /\ RLe(Num(-1), r) /\ RLe(r, Num(1))

C4_Witness ==
    /\ op = "normalizeLocation"
    /\ inp.self.axes[1] = Axis("weight", "wght", Num(1), Num(2), Num(4), << >>)
    /\ inp.location = [weight |-> Num(5), width |-> Num(3)]
    /\ out = [weight |-> Num(1), width |-> Rat(1, 2)]

\* The attributes compare() goes through: the _attrs of the descriptors
SourceAttrs(s) ==
    [filename |-> s.filename, path |-> s.path, name |-> s.name,
     location |-> s.location, copyLib |-> s.copyLib, copyGroups |-> s.copyGroups,
     copyFeatures |-> s.copyFeatures, muteKerning |-> s.muteKerning,
     muteInfo |-> s.muteInfo, mutedGlyphNames |-> s.mutedGlyphNames]

InstanceAttrs(i) ==
    [path |-> i.path, name |-> i.name, location |-> i.location,
     kerning |-> i.kerning, info |-> i.info]

SameData(d, e) ==
    /\ d.axes = e.axes
    /\ d.rules = e.rules
    /\ Len(d.sources) = Len(e.sources)
    /\ \A i \in 1..Len(d.sources) : SourceAttrs(d.sources[i]) = SourceAttrs(e.sources[i])
    /\ Len(d.instances) = Len(e.instances)
    /\ \A i \in 1..Len(d.instances) :
            InstanceAttrs(d.instances[i]) = InstanceAttrs(e.instances[i])

\* C5: after read(path), write() goes through and a new document that reads
\* what was written has axes, sources, instances and rules equal, attribute
\* by attribute, to those of the first document (as read() left it, or as
\* it is after the write).
C5_RoundTrip ==
    /\ op = "write" => ~ret.raised
    /\ op = "reread" =>
            /\ ~ret.raised
            /\ SameData(doc2, hist.first) \/ SameData(doc2, doc)

\* The declared axes of d are all at their defaults in the location of its
\* i-th source.
AtDefaults(d, i) ==
    /\ d.sources[i].location # None
    /\ \A n \in AxisNames(d.axes) :
            /\ n \in DOMAIN d.sources[i].location[1]
            /\ d.sources[i].location[1][n] = newDefaultLocation(d)[n]

ExpectedDefault(d) ==
    LET byLocation == FirstIndex({i \in 1..Len(d.sources) : AtDefaults(d, i)})
    IN  IF byLocation # None THEN byLocation
        ELSE FirstIndex({i \in 1..Len(d.sources) : d.sources[i].copyInfo})

\* C6: on a document with axes, built through the API or read, findDefault
\* returns and stores in default the first source whose location has every
\* declared axis at its default, else the first source flagged copyInfo,
\* else None, and does not raise.
C6_FindDefault ==
    (op = "findDefault" /\ hist.before.axes # << >>)
    => /\ ~ret.raised
       /\ ret.value = ExpectedDefault(hist.before)
       /\ doc.default = ExpectedDefault(hist.before)

\* C7: while every call of getGlyphMutator leaves fromCache True and model
\* construction succeeds, the model of a (glyphName, decomposeComponents) key
\* is built on the first call for that key only, every call returns the
\* model stored for that key, and keys that differ in the decompose flag
\* hold separate entries.
C7_BuiltOncePerKey ==
    (op \in {"getGlyphMutator", "editGlyph"} /\ ~hist.forced /\ ~hist.failed)
    => /\ \A c \in CacheCalls :
            /\ hist.builds[c] = (IF hist.calls[c] = 0 THEN 0 ELSE 1)
            /\ hist.calls[c] > 0 =>
                    /\ c \in DOMAIN proc.glyphMutators
                    /\ proc.glyphMutators[c].items.glyphName = c[1]
                    /\ proc.glyphMutators[c].items.decomposed = c[2]
       /\ \A c, e \in DOMAIN proc.glyphMutators :
            c # e => proc.glyphMutators[c].serial # proc.glyphMutators[e].serial
       /\ op = "getGlyphMutator" =>
            /\ ~ret.raised
            /\ ret.value = proc.glyphMutators[hist.last]
            /\ ret.value.items.glyphName = hist.last[1]
            /\ ret.value.items.decomposed = hist.last[2]

C7_Witness ==
    /\ op = "getGlyphMutator"
    /\ ~hist.forced /\ ~hist.failed
    /\ hist.last = <<"a", FALSE>>
    /\ hist.calls[<<"a", FALSE>>] = 2
    /\ hist.builds[<<"a", FALSE>>] = 1
    /\ hist.calls[<<"a", TRUE>>] = 1
    /\ proc.fonts["a"] = 1
    /\ ret.value.items.data = 0
    /\ ret.value.serial = 1
    /\ proc.glyphMutators[<<"a", TRUE>>].serial = 2

\* C8: after normalize(), every bound of every rule condition is the
\* normalized value of the bound it was, computed against the axes as they
\* were before normalize(), and an absent bound stays absent.
C8_RuleBoundsAgainstOriginalAxes ==
    (op = "normalize" /\ ~ret.raised) => doc.rules = normalizeRules(hist.before)

\* The axes of d have names of their own and minimum <= default <= maximum.
ValidAxes(d) ==
    \A i \in 1..Len(d.axes) :
        /\ RLe(d.axes[i].minimum, d.axes[i].default)
        /\ RLe(d.axes[i].default, d.axes[i].maximum)
        /\ \A j \in 1..Len(d.axes) : d.axes[j].name = d.axes[i].name => j = i

\* Every source, instance and glyph master of d has a location.
Located(d) ==
    /\ \A i \in 1..Len(d.sources) : d.sources[i].location # None
    /\ \A i \in 1..Len(d.instances) :
            /\ d.instances[i].location # None
            /\ \A k \in 1..Len(d.instances[i].glyphs) :
                    LET g == d.instances[i].glyphs[k]
                    IN  g.masters # None =>
                            \A m \in 1..Len(g.masters[1]) : g.masters[1][m].location # None

InUnitRange(location) ==
    /\ location # None
    /\ \A n \in DOMAIN location[1] :
            /\ ~IsTuple(location[1][n])
            /\ RLe(Num(-1), location[1][n])
            /\ RLe(location[1][n], Num(1))

Normalized(d) ==
    /\ \A i \in 1..Len(d.axes) :
            /\ d.axes[i].default = Num(0)
            /\ d.axes[i].minimum \in {Num(-1), Num(0)}
            /\ d.axes[i].maximum \in {Num(0), Num(1)}
    /\ \A i \in 1..Len(d.sources) : InUnitRange(d.sources[i].location)
    /\ \A i \in 1..Len(d.instances) :
            /\ InUnitRange(d.instances[i].location)
            /\ \A k \in 1..Len(d.instances[i].glyphs) :
                    LET g == d.instances[i].glyphs[k]
                    IN  /\ g.instanceLocation # None => InUnitRange(g.instanceLocation)
                        /\ g.masters # None =>
                                \A m \in 1..Len(g.masters[1]) :
                                    InUnitRange(g.masters[1][m].location)

\* C9: on a document whose axes have minimum <= default <= maximum (and
\* a name each) and whose sources, instances and glyph masters all have a
\* location, glyph entries without instanceLocation or without masters
\* included,
\* normalize() completes and leaves every axis at default 0 with minimum
\* -1 or 0 and maximum 0 or 1 and every location value within [-1, 1].
C9_NormalizeCompletes ==
    (op = "normalize" /\ ValidAxes(hist.before) /\ Located(hist.before))
    => /\ ~ret.raised
       /\ Normalized(doc)

\* C10: as long as only addAxis, read and normalize have been called and
\* none has raised, defaultLoc gives for every declared axis the default
\* newDefaultLocation() gives.
C10_DefaultLocCurrent ==
    (hist.plain /\ ~ret.raised)
    => \A n \in AxisNames(doc.axes) :
            /\ doc.defaultLoc # None
            /\ n \in DOMAIN doc.defaultLoc[1]
            /\ doc.defaultLoc[1][n] = newDefaultLocation(doc)[n]

\* C11: after a reload of the document (read() again on the processor, or
\* loadFonts(reload=True)) getGlyphMutator, getInfoMutator and
\* getKerningMutator never return a model that was built before the reload.
C11_ReloadClearsCache ==
    (op \in {"getGlyphMutator", "getInfoMutator", "getKerningMutator"}
        /\ ~ret.raised)
    => ret.value.serial > hist.reloadedAt

\* C12: when constructing a variation model fails (zero masters, duplicate
\* master locations the library rejects, no master at the default),
\* getVariationModel raises: it never returns normally without a model.
C12_ModelErrorReachesCaller ==
    op = "getVariationModel" => (ret.raised \/ ret.value # None)

\* C16: VariationModelMutator.get(L) returns the value of the master that
\* was supplied at L, for every master location L passed to the constructor
\* in the units the caller used, and None when no master was supplied at L.
SuppliedAt(items, key) == {i \in 1..Len(items) : items[i][1] = key}

C16_GetReturnsMasterAtLocation ==
    (op = "get" /\ proc.useVarlib /\ inp.location # << >>
        /\ ~Duplicates(inp.items))
    => ret.value = (IF SuppliedAt(inp.items, inp.location) = {} THEN None
                    ELSE inp.items[FirstIndex(SuppliedAt(inp.items,
                                                         inp.location))[1]][2])

\* C17: a model built through getVariationModel from two masters on one
\* axis at the normalized positions 0 and 1 and queried at the normalized
\* position 2 gives the master at 1 a weight above 1 and the master at 0 a
\* weight below 0, with either strategy.  The weight of a master is read
\* off the instance built from masters of which that one has the value 1
\* and the other the value 0; the factor of the master at 1 is the last of
\* getFactors.
NormalizedPlace(k) ==
    [weight |-> RAdd(doc.axes[1].default,
                     RMul(Num(k), RSub(doc.axes[1].maximum, doc.axes[1].default)))]

TwoMastersQueriedBeyond ==
    /\ Len(inp.items) = 2
    /\ {inp.items[1][1], inp.items[2][1]} = {NormalizedPlace(0), NormalizedPlace(1)}
    /\ NormalizedPlace(0) # NormalizedPlace(1)
    /\ inp.location = NormalizedPlace(2)

C17_Extrapolates ==
    /\ (op = "makeInstance" /\ TwoMastersQueriedBeyond) =>
            \A k \in 1..2 :
                (inp.items[k][2].width = Num(1) /\ inp.items[3 - k][2].width = Num(0))
                => IF inp.items[k][1] = NormalizedPlace(1)
                   THEN RLt(Num(1), ret.value.width)
                   ELSE RLt(ret.value.width, Num(0))
    /\ (op = "getFactors" /\ TwoMastersQueriedBeyond) =>
            RLt(Num(1), ret.value[Len(ret.value)])

\* C15: after swapGlyphNames(font, A, B) with both glyphs present the
\* outlines and widths of A and B are exchanged, every kerning pair has A
\* and B exchanged in either position with its value unchanged, every
\* component that referenced A references B and the reverse, and all other
\* glyphs, kerning pairs and component references are unchanged.
Exchange(name, A, B) == IF name = A THEN B ELSE IF name = B THEN A ELSE name

ExchangedComponents(components, A, B) ==
    [k \in 1..Len(components) |-> Exchange(components[k], A, B)]

Exchanged(before, after, A, B) ==
    /\ DOMAIN after.glyphs = DOMAIN before.glyphs
    /\ \A n \in DOMAIN before.glyphs :
            /\ after.glyphs[n].outline = before.glyphs[Exchange(n, A, B)].outline
            /\ after.glyphs[n].width = before.glyphs[Exchange(n, A, B)].width
            /\ after.glyphs[n].components =
                    ExchangedComponents(before.glyphs[Exchange(n, A, B)].components, A, B)
            /\ after.glyphs[n].unicodes = before.glyphs[n].unicodes
    /\ DOMAIN after.kerning =
            {<<Exchange(q[1], A, B), Exchange(q[2], A, B)>> : q \in DOMAIN before.kerning}
    /\ \A q \in DOMAIN before.kerning :
            after.kerning[<<Exchange(q[1], A, B), Exchange(q[2], A, B)>>] = before.kerning[q]

BothPresent ==
    /\ op = "swapGlyphNames"
    /\ inp.oldName \in DOMAIN inp.font.glyphs
    /\ inp.newName \in DOMAIN inp.font.glyphs

C15_SwapExchanges ==
    BothPresent => Exchanged(inp.font, out, inp.oldName, inp.newName)

\* C15 as amended: the same, for a font in which no glyph name contains the
\* swap extension (such a glyph is deleted by the swap).
C15_SwapExchangesPlainNames ==
    (BothPresent /\ \A n \in DOMAIN inp.font.glyphs : ~hasSwapExtension(n))
    => Exchanged(inp.font, out, inp.oldName, inp.newName)

C15_Witness ==
    /\ BothPresent
    /\ inp.oldName = "a" /\ inp.newName = "b"
    /\ DOMAIN inp.font.glyphs = {"a", "b", "c"}
    /\ inp.font.glyphs["c"].components = <<"a", "b">>
    /\ inp.font.glyphs["b"].components = <<"a">>
    /\ <<"a", "b">> \in DOMAIN inp.font.kerning
    /\ out.glyphs["c"].components = <<"b", "a">>
    /\ out.glyphs["a"].components = <<"b">>
    /\ out.glyphs["a"].outline = "B" /\ out.glyphs["b"].width = Num(100)
    /\ out.kerning[<<"b", "a">>] = 5 /\ out.kerning[<<"a", "c">>] = 7

\* C19 asks of a condition list that names an axis the location does not have.
C19_AxisAbsent ==
    /\ op = "evaluateConditions"
    /\ \E i \in 1..Len(inp.conditions) : inp.conditions[i].name \notin DOMAIN inp.location

\* C19: evaluateConditions never returns True when a condition names an axis
\* that is absent from the location; it raises or returns False.
C19_AbsentAxisNeverTrue ==
    C19_AxisAbsent => out \in {"Error", "False"}

\* Both outcomes occur: KeyError at the absent axis, and False from a
\* condition that comes before it.
C19_Witness ==
    /\ C19_AxisAbsent
    /\ inp.conditions = << Cond("width", Num(1), Num(3)) >>
    /\ inp.location = [weight |-> Num(2)]
    /\ out = "Error"

C19_WitnessFalse ==
    /\ C19_AxisAbsent
    /\ inp.conditions = << Cond("weight", Num(3), None), Cond("width", Num(1), Num(3)) >>
    /\ inp.location = [weight |-> Num(2)]
    /\ out = "False"

\* A location (None or <<mapping>>) that has only declared axis names as keys
DeclaredOnly(names, location) ==
    location = None \/ DOMAIN location[1] \subseteq names

GlyphDeclaredOnly(names, data) ==
    /\ DeclaredOnly(names, data.instanceLocation)
    /\ data.masters # None =>
          \A k \in 1..Len(data.masters[1]) :
              DeclaredOnly(names, data.masters[1][k].location)

\* The sources and the instances after the first n and m of them
DeclaredOnlyFrom(self, n, m) ==
    /\ \A i \in (n + 1)..Len(self.sources) :
          DeclaredOnly(AxisNames(self.axes), self.sources[i].location)
    /\ \A i \in (m + 1)..Len(self.instances) :
          /\ DeclaredOnly(AxisNames(self.axes), self.instances[i].location)
          /\ \A k \in 1..Len(self.instances[i].glyphs) :
                GlyphDeclaredOnly(AxisNames(self.axes), self.instances[i].glyphs[k])

\* The same of the elements of a file
GlyphElementDeclaredOnly(names, e) ==
    /\ DeclaredOnly(names, e.location)
    /\ e.masters # None =>
          \A k \in 1..Len(e.masters[1]) : DeclaredOnly(names, e.masters[1][k].location)

RootDeclaredOnly(root) ==
    /\ \A i \in 1..Len(root.sources) :
          DeclaredOnly(AxisNames(root.axes), root.sources[i].location)
    /\ \A i \in 1..Len(root.instances) :
          /\ DeclaredOnly(AxisNames(root.axes), root.instances[i].location)
          /\ \A k \in 1..Len(root.instances[i].glyphs) :
                GlyphElementDeclaredOnly(AxisNames(root.axes), root.instances[i].glyphs[k])

\* A document with the undeclared keys taken out of every location
Declared(names, location) ==
    IF location = None THEN None
    ELSE Some([n \in DOMAIN location[1] \cap names |-> location[1][n]])

DeclaredGlyph(names, data) ==
    [data EXCEPT
        !.instanceLocation = Declared(names, @),
        !.masters = IF @ = None THEN None
                    ELSE Some([k \in 1..Len(@[1]) |->
                                 [@[1][k] EXCEPT !.location = Declared(names, @)]])]

DeclaredDocument(self) ==
    [self EXCEPT
        !.sources = [i \in 1..Len(@) |->
                        [@[i] EXCEPT !.location = Declared(AxisNames(self.axes), @)]],
        !.instances = [i \in 1..Len(@) |->
                        [@[i] EXCEPT
                            !.location = Declared(AxisNames(self.axes), @),
                            !.glyphs = [k \in 1..Len(@) |->
                                          DeclaredGlyph(AxisNames(self.axes), @[k])]]]]

\* C20 asks of read() of a file that declares at least one axis, and of write().
C20_ReadCase ==
    /\ op = "read"
    /\ file[doc.path] # None
    /\ Len(file[doc.path].axes) >= 1

C20_WitnessRead ==
    /\ C20_ReadCase /\ ~ret.raised
    /\ hist.before = NewDocument
    /\ file[InputPath] = StrayFile(<<StrayGlyph>>)
    /\ doc.sources[1].location = Some([weight |-> Num(0)])
    /\ doc.instances[1].location = Some(EmptyLocation)
    /\ doc.instances[1].glyphs[1].instanceLocation = Some([weight |-> Num(250)])
    /\ doc.instances[1].glyphs[1].masters[1][1].location = Some(EmptyLocation)

\* The instance as makeInstance builds it from the processor as it is now
Buildable(i) ==
    /\ doc.instances[i].path # None
    /\ ~makeInstance(Self(doc, proc), doc.instances[i], inp.doRules).raised

HasProblem(text) == \E k \in 1..Len(proc.problems) : proc.problems[k] = text

\* C13: generateUFO produces output for every instance that can be built even
\* when another instance or a source fails: the failure is appended to
\* problems, and the remaining instances with a path are generated and saved.
C13_BuildableInstancesSaved ==
    op = "generateUFO" =>
        /\ ~ret.raised
        /\ \A i \in 1..Len(doc.instances) :
              Buildable(i) =>
                  /\ file[doc.instances[i].path] # None
                  /\ file[doc.instances[i].path].font =
                        makeInstance(Self(doc, proc), doc.instances[i], inp.doRules).value[1]

\* C14: generateUFO never saves an instance over an existing UFO whose format
\* version is greater than the target ufoVersion (it appends a problem entry,
\* skips the save and goes on); when the existing version is at most the
\* target, or nothing exists at the path, the instance is saved.
C14_SavedUnlessNewer ==
    op = "generateUFO" =>
        \A i \in 1..Len(doc.instances) :
            Buildable(i) =>
                IF /\ file[doc.instances[i].path] # None
                   /\ file[doc.instances[i].path].formatVersion > proc.ufoVersion
                THEN HasProblem("Can't overwrite existing UFO")
                ELSE /\ file[doc.instances[i].path] # None
                     /\ file[doc.instances[i].path].formatVersion = proc.ufoVersion
                     /\ HasProblem("Generated")

\* The glyph in the source at the default location
NeutralGlyph(glyphName) ==
    proc.fonts[doc.sources[doc.default[1]].name][1].glyphs[glyphName]

\* C18: in every instance built by makeInstance, with either strategy, a
\* glyph that is not muted has the unicodes listed for it in the glyph data of
\* the instance when they are given, and otherwise the unicodes of that glyph
\* in the master at the default location.
C18_InstanceUnicodes ==
    (op = "makeInstance" /\ ~ret.raised) =>
        \A n \in DOMAIN out[1].glyphs :
            ~glyphDataOf(doc.instances[inp.instance], n).mute =>
                out[1].glyphs[n].unicodes =
                    (IF "unicodes" \in DOMAIN glyphDataOf(doc.instances[inp.instance], n)
                     THEN glyphDataOf(doc.instances[inp.instance], n).unicodes
                     ELSE NeutralGlyph(n).unicodes)

\* C21: the keys of normalizeLocation(location) are exactly the declared axis
\* names that are keys of location: an axis the location lacks is not added,
\* and a key that is not a declared axis is not carried over.
C21_KeysAreDeclaredAndGiven ==
    op = "normalizeLocation" =>
        DOMAIN out = AxisNames(inp.self.axes) \cap DOMAIN inp.location

\* width is declared and not given, optical is given and not declared
C21_Witness ==
    /\ op = "normalizeLocation"
    /\ AxisNames(inp.self.axes) = {"weight", "width"}
    /\ DOMAIN inp.location = {"weight", "optical"}
    /\ DOMAIN out = {"weight"}

\* What C22 says of one descriptor, given the descriptor as it was before
FilenameFollowsPath(self, descriptor, was) ==
    IF descriptor.path # None
    THEN descriptor.filename = posix(relpath(descriptor.path, dirname(self.path)))
    ELSE descriptor.filename = was.filename

\* C22: after write(docPath) every source and instance descriptor whose path
\* is not None has as filename the forward-slash relative path from the
\* directory of the document to its path, whatever filename was set before;
\* a descriptor whose path is None keeps its filename, None or not.
C22_FilenamesFollowPaths ==
    op = "write" =>
        /\ \A i \in 1..Len(doc.sources) :
              FilenameFollowsPath(doc, doc.sources[i], hist.before.sources[i])
        /\ \A i \in 1..Len(doc.instances) :
              FilenameFollowsPath(doc, doc.instances[i], hist.before.instances[i])

\* Written to proj/out/b.designspace: the source at proj/masters/light.ufo
\* trades the filename masters/light.ufo for ../masters/light.ufo, the
\* instance without a path keeps ../elsewhere.ufo.
C22_Witness ==
    /\ op = "write" /\ ~ret.raised
    /\ doc.path = OtherPath
    /\ Len(doc.sources) = 1 /\ Len(doc.instances) = 1
    /\ hist.before.sources[1].filename = <<"masters", "light.ufo">>
    /\ doc.sources[1].path = LightPath
    /\ doc.sources[1].filename = <<"..", "masters", "light.ufo">>
    /\ doc.instances[1].path = None
    /\ doc.instances[1].filename = <<"..", "elsewhere.ufo">>

\* Both calls have returned or raised
BothComplete == \A t \in 1..2 : hist.calls[t].pc \in {"done", "raised"}

\* The cache after the two calls made one after the other, first then second
SequentialCache(first, second) ==
    getGlyphMutator(getGlyphMutator(Self(doc, hist.start), first).self,
                    second).self.glyphMutators

\* C23: for two getGlyphMutator calls on different cache keys whose steps
\* (cache lookup, build, cache store) interleave in any order, the cache after
\* both are complete is the cache after the two calls made sequentially, in
\* either order: it holds for each key the model built from the masters of
\* that key (and no entry for a key whose model could not be built).
C23_InterleavedAsSequential ==
    BothComplete =>
        /\ proc.glyphMutators = SequentialCache("a", "b")
        /\ proc.glyphMutators = SequentialCache("b", "a")
        /\ \A t \in 1..2 :
              hist.calls[t].pc = "done" =>
                  /\ cacheKey(CallGlyphs[t], FALSE) \in DOMAIN proc.glyphMutators
                  /\ Some(proc.glyphMutators[cacheKey(CallGlyphs[t], FALSE)])
                        = getVariationModel(Self(doc, hist.start),
                              collectGlyphMasters(Self(doc, hist.start), CallGlyphs[t],
                                                  1, << >>).value, TRUE).value

\* Both models were built, the store of b coming between the build and the
\* store of a
C23_Witness ==
    /\ BothComplete
    /\ hist.start.glyphMutators = << >>
    /\ DOMAIN proc.glyphMutators = {cacheKey("a", FALSE), cacheKey("b", FALSE)}
    /\ hist.calls[1].items # hist.calls[2].items
    /\ op = "store"

\* C24: for every location that gives the axes a rule names, evaluateRule on
\* the rule read back after write() answers what evaluateRule on the rule in
\* memory answers; in particular a rule holding an empty condition set matches
\* the same locations before and after.
C24_SameAfterRoundTrip ==
    op = "evaluateRule" => out.readBack = out.memory

\* The rule in memory holds an empty condition set alone and matches; read
\* back it holds no condition set
C24_EmptyConditionSetLost ==
    /\ op = "evaluateRule"
    /\ doc.rules[1].conditionSets = << << >> >>
    /\ out.memory = "True"
    /\ Len(doc2.rules) = 1
    /\ doc2.rules[1].conditionSets = << >>
    /\ out.readBack = "False"

\* C25: for a document built through the API, write() followed by read()
\* preserves the kerning flag and the info flag of each instance: a flag set
\* to False is False in the instance read back.
C25_FlagsPreserved ==
    op = "read" /\ ~ret.raised =>
        /\ Len(doc2.instances) = Len(doc.instances)
        /\ \A i \in 1..Len(doc.instances) :
              /\ doc2.instances[i].kerning = doc.instances[i].kerning
              /\ doc2.instances[i].info = doc.instances[i].info

\* Both flags were False, no kerning and no info element was written, and
\* the instance read back has both True
C25_FlagsBackToTrue ==
    /\ op = "read" /\ ~ret.raised
    /\ ~doc.instances[1].kerning /\ ~doc.instances[1].info
    /\ ~file[InputPath].instances[1].kerning /\ ~file[InputPath].instances[1].info
    /\ doc2.instances[1].kerning /\ doc2.instances[1].info

\* The instance of the last makeInstance call, made without the rules
PlainInstance ==
    makeInstance(Self(doc, proc), doc.instances[inp.instance], FALSE).value[1]

\* What processRules answers for the glyph names at the instance's location
ResultNames ==
    processRules(doc.rules, doc.instances[inp.instance].location[1],
                 proc.glyphNames).value

\* C26: after makeInstance with doRules, every glyph name n for which
\* processRules answers another name m (both glyphs present) holds the outline
\* and the width interpolated for m, also when one rule substitutes in both
\* directions (a by b and b by a).
C26_SwappedNamesHoldTargets ==
    (op = "makeInstance" /\ inp.doRules /\ ~ret.raised) =>
        \A k \in 1..Len(proc.glyphNames) :
            (/\ ResultNames[k] # proc.glyphNames[k]
             /\ proc.glyphNames[k] \in DOMAIN PlainInstance.glyphs
             /\ ResultNames[k] \in DOMAIN PlainInstance.glyphs)
            => /\ out[1].glyphs[proc.glyphNames[k]].outline
                    = PlainInstance.glyphs[ResultNames[k]].outline
               /\ out[1].glyphs[proc.glyphNames[k]].width
                    = PlainInstance.glyphs[ResultNames[k]].width

\* The rule substitutes in both directions, processRules answers b for a and
\* a for b, and the instance is the one made without rules
C26_SwappedTwice ==
    /\ op = "makeInstance" /\ inp.doRules /\ ~ret.raised
    /\ Len(doc.rules[1].subs) = 2
    /\ Len(ResultNames) = 2
    /\ \A k \in 1..2 : ResultNames[k] # proc.glyphNames[k]
    /\ out[1].glyphs = PlainInstance.glyphs
    /\ out[1].glyphs["a"].outline # out[1].glyphs["b"].outline

\* The conditions in another order
Permuted(conditions, p) == [k \in 1..Len(conditions) |-> conditions[p[k]]]

\* The condition raises when the loop reaches it: the location has no value
\* for its axis, or the comparison raises TypeError
RaisesAlone(cd, location) ==
    \/ cd.name \notin DOMAIN location
    \/ Condition(cd, location[cd.name]) = "Error"

\* C27 as stated: the outcome of evaluateConditions (True, False or an error)
\* is the same for every order of the conditions, also when the location
\* lacks an axis that a condition names.
C27_AnyOrder ==
    op = "evaluateConditions" =>
        \A p \in Permutations(1..Len(inp.conditions)) :
            evaluateConditions(Permuted(inp.conditions, p), inp.location) = out

\* C27: when no condition raises on its own (the location gives every axis
\* the conditions name and no comparison raises), the outcome is True or False
\* and is the same for every order of the conditions; when some condition
\* raises on its own, the outcome is never True, and it is False exactly when
\* a condition that fails comes before the first one that raises.
C27_AnyOrderUnlessRaising ==
    op = "evaluateConditions" =>
        IF \A i \in 1..Len(inp.conditions) : ~RaisesAlone(inp.conditions[i], inp.location)
        THEN /\ out \in {"True", "False"}
             /\ \A p \in Permutations(1..Len(inp.conditions)) :
                    evaluateConditions(Permuted(inp.conditions, p), inp.location) = out
        ELSE /\ out \in {"Error", "False"}
             /\ out = "False" <=>
                    \E i \in 1..Len(inp.conditions) :
                        /\ ~RaisesAlone(inp.conditions[i], inp.location)
                        /\ Condition(inp.conditions[i],
                                     inp.location[inp.conditions[i].name]) = "False"
                        /\ \A j \in 1..(i - 1) :
                                ~RaisesAlone(inp.conditions[j], inp.location)

\* Two conditions on two axes the location gives: the first holds, the second
\* fails, in either order the answer is False
C27_Witness ==
    /\ op = "evaluateConditions"
    /\ inp.conditions = << Cond("weight", Num(1), Num(3)), Cond("width", Num(3), None) >>
    /\ inp.location = [weight |-> Num(2), width |-> Num(2)]
    /\ out = "False"
    /\ evaluateConditions(<< Cond("width", Num(3), None), Cond("weight", Num(1), Num(3)) >>,
                          inp.location) = "False"

\* No glyph of the font handed in has the swap extension in its name
PlainNames == \A n \in DOMAIN inp.font.glyphs : ~hasSwapExtension(n)

\* C28: for a font none of whose glyph names contains the swap extension,
\* swapGlyphNames(font, A, B) applied twice restores the outlines, the widths,
\* the kerning pairs, the group memberships, the component references and the
\* set of glyph names of the font.
C28_SwapTwiceRestores ==
    (op = "swapBack" /\ PlainNames) =>
        /\ DOMAIN out.glyphs = DOMAIN inp.font.glyphs
        /\ \A n \in DOMAIN inp.font.glyphs :
              /\ out.glyphs[n].outline = inp.font.glyphs[n].outline
              /\ out.glyphs[n].width = inp.font.glyphs[n].width
              /\ out.glyphs[n].components = inp.font.glyphs[n].components
        /\ out.kerning = inp.font.kerning
        /\ out.groups = inp.font.groups

\* a and b were exchanged and exchanged back, with a composite and kerning
\* that name them
C28_Witness ==
    /\ op = "swapBack" /\ PlainNames
    /\ inp.oldName = "a" /\ inp.newName = "b"
    /\ "c" \in DOMAIN inp.font.glyphs
    /\ inp.font.glyphs["c"].components = <<"a", "b">>
    /\ inp.font.glyphs["b"].components = <<"a">>
    /\ <<"a", "b">> \in DOMAIN inp.font.kerning
    /\ swapGlyphNames(inp.font, "a", "b") # inp.font
    /\ out = inp.font

\* C29: normalize() is idempotent on the documents it can process: after
\* normalize(), a second normalize() leaves the source and instance locations,
\* the minimum, default, maximum and map of every axis and the rule
\* conditions as they are.
C29_NormalizeIdempotent ==
    (op = "normalize" /\ ~ret.raised) =>
        /\ ~normalize(doc).raised
        /\ normalize(doc).value = doc

\* read, normalize, normalize: the first changed the document, the second
\* did not
C29_Witness ==
    /\ op = "normalize" /\ ~ret.raised
    /\ hist.nops = 3
    /\ hist.before = doc
    /\ Len(doc.sources) = 2 /\ Len(doc.instances) = 1 /\ Len(doc.rules) = 1
    /\ doc.instances[1].glyphs # << >>
    /\ doc.axes[1].maximum = Num(1)
    /\ doc.sources[2].location = Some([weight |-> Num(1)])

\* The last call was read(path) on a document that was as read(path) leaves
\* a new document
ReadTwice ==
    /\ op = "read"
    /\ hist.nops = 2
    /\ doc.path # None
    /\ file[doc.path] # None
    /\ hist.before = read(NewDocument, doc.path, file[doc.path]).value

\* C30: calling read(path) twice on the same document object leaves it with
\* the same axes, sources, instances and rules as calling it once: nothing is
\* listed twice.
C30_ReadTwiceAsOnce ==
    ReadTwice =>
        /\ ~ret.raised
        /\ doc.axes = hist.before.axes
        /\ doc.sources = hist.before.sources
        /\ doc.instances = hist.before.instances
        /\ doc.rules = hist.before.rules

\* After the second read the axis, the two sources and the instance of the
\* file are listed twice, the rule once
C30_ListedTwice ==
    /\ ReadTwice /\ ~ret.raised
    /\ Len(file[doc.path].axes) = 1 /\ Len(doc.axes) = 2
    /\ doc.axes[1] = doc.axes[2]
    /\ Len(doc.sources) = 4
    /\ Len(doc.instances) = 2
    /\ Len(doc.rules) = 1

====
